---- MODULE Spec2Model ----
(***************************************************************************)
(* A model of the LLC_Membranes analysis toolbox: the fixed-column file    *)
(* library (src/llclib/file_rw.py) and the ring-stacking geometry          *)
(* (src/Scripts/eclipse.py).                                               *)
(*                                                                         *)
(* Text is modelled as a sequence of one-character strings, so a slice, a  *)
(* format field and an int() are computed column by column as Python does. *)
(* Every tool is a batch job of its own; each has its own specification    *)
(* (SpecAsm, SpecGro, ...) that leaves the other tools' variables idle.    *)
(***************************************************************************)
EXTENDS Integers, Sequences, FiniteSets, TLC

VARIABLES
    \* write_assembly
    a,          \* the lines of the monomer template, each ending in "\n"
    xlink,      \* "on" | "off"
    no_mon,     \* number of monomer copies
    nr,         \* atoms counted in the template's [ atoms ] section
    f,          \* the strings handed to f.write, in order
    pcAsm       \* position of write_assembly

asmVars == <<a, xlink, no_mon, nr, f, pcAsm>>

VARIABLES
    \* write_gro and read_gro_coords
    count0,     \* atoms of the frame that precede the modelled ones
    top,        \* t.topology.atoms from count0 on: residue name, residue index, atom name
    pos,        \* t.xyz[0] from count0 on, in units of 1e-4
    v,          \* t.unitcell_vectors[0], in units of 1e-6
    gro,        \* the file: its header lines, the lines of the modelled atoms, the box line
    xyz,        \* coordinates returned by read_gro_coords, in units of 1e-2
    identity,   \* atom names returned by read_gro_coords
    pcGro       \* "write" | "read" | "done" | "ValueError" | "KeyError"

groVars == <<count0, top, pos, v, gro, xyz, identity, pcGro>>

VARIABLES
    \* write_water_ndx
    keep,       \* the atom indices (0-based) that are retained
    residues,   \* residue of every atom of t.topology.atoms: name and number
    waters,     \* the list waters
    membrane,   \* the list membrane
    ndx,        \* the strings written to water_index.ndx, in order
    pcNdx       \* "write" | "done"

ndxVars == <<keep, residues, waters, membrane, ndx, pcNdx>>

VARIABLES
    \* intersection(A, B, C, D)
    segA, segB, segC, segD,     \* the end points of the segments AB and CD
    isect,                      \* what intersection returned: False or a point
    pcIsect                     \* "call" | "done"

isectVars == <<segA, segB, segC, segD, isect, pcIsect>>

VARIABLES
    \* overlap(poly1, poly2)
    poly1, poly2,               \* the two rings, six vertices each
    pts,                        \* the points overlap_pts collected
    overlap_area,               \* what overlap returned
    raised,                     \* the exception that left overlap, or "none"
    pcOverlap                   \* "call" | "done"

ovlVars == <<poly1, poly2, pts, overlap_area, raised, pcOverlap>>

VARIABLES
    \* PolyArea(x, y)
    px, py,                     \* the coordinates of the vertices, in order
    area,                       \* what PolyArea returned
    pcArea                      \* "call" | "done"

areaVars == <<px, py, area, pcArea>>

VARIABLES
    \* multi_hbonds.py
    nhbonds,                    \* the per-residue accumulator
    hbSolute,                   \* how many solutes the loop has entered
    hbFrame,                    \* how many frames of the solute are done
    n_frames,                   \* sys.t.n_frames of the solute
    numbers,                    \* the residue numbers of the last frame
    single, double, triple, quadruple,
    pcHb                        \* "solute" | "frame" | "done" | "ZeroDivisionError"

hbVars == <<nhbonds, hbSolute, hbFrame, n_frames, numbers,
            single, double, triple, quadruple, pcHb>>

VARIABLES
    \* WAXS.py
    raw,                        \* the cropped image as loaded
    waxs,                       \* the image being processed
    pcWaxs                      \* "despeckle" | "normalize" | "done"

waxsVars == <<raw, waxs, pcWaxs>>

VARIABLES
    \* tilt.py, angles(pos, atoms)
    tiltPos,                    \* pos: the frames, each the atoms of the chains
    tiltAtoms,                  \* atoms: the atoms of one chain
    wTilt,                      \* w, the array angles returned
    pcTilt                      \* "call" | "done" | "ZeroDivisionError"

tiltVars == <<tiltPos, tiltAtoms, wTilt, pcTilt>>

VARIABLES
    \* last_frame(trr, gro)
    trr,                        \* the name of the trajectory file
    lfXyz,                      \* t.xyz of that file
    lfLoaded,                   \* md.load was called
    lfPrinted,                  \* what was printed
    lfLast,                     \* last, the array returned
    lfRaised,                   \* the exception that left last_frame, or "none"
    pcLf                        \* "call" | "returned" | "raised"

lfVars == <<trr, lfXyz, lfLoaded, lfPrinted, lfLast, lfRaised, pcLf>>

VARIABLES pdbFile, pdbXyz, pdbIdentity, pdbNoAtoms, pdbLinesOfText, pcPdb

pdbVars == <<pdbFile, pdbXyz, pdbIdentity, pdbNoAtoms, pdbLinesOfText, pcPdb>>

VARIABLES
    \* pbz and overlap_pairs
    eclMode,                    \* whether the periodic array comes out of pbz
    pores, layers, layersearch, \* the arguments
    pbzPos, pbzBox,             \* pos and the z vectors box[t, 2, :] given to pbz
    centers,                    \* the periodic array overlap_pairs is given
    slotWrites,                 \* how often pbz assigned each slot of newpos
    pairsOut,                   \* pairs
    frameP, ringP,              \* the loop variables t and i - real_rings
    rawPair,                    \* ring_pair of the last pass before line 236
    pcEcl

eclVars == <<eclMode, pores, layers, layersearch, pbzPos, pbzBox, centers, slotWrites, pairsOut, frameP, ringP, rawPair, pcEcl>>

VARIABLES
    \* p2p_stats(p2ps, exclude, nboot, equil)
    p2psIn,                     \* p2ps: six series of distances
    excludeArg, nbootArg,       \* int(exclude), int(nboot)
    equilT,                     \* t
    tauInt,                     \* tau = int(max(taus))
    p2pSeries,                  \* p2ps after line 88: the five series kept
    trajectories,               \* the pooled array, column by column
    colWrites,                  \* how often each column was assigned
    fillI, fillJ,               \* the loop variables of lines 113-114
    draws,                      \* calls of ran.randrange
    p2pAvg, p2pStd,             \* p2p_avg, p2p_std
    pcP2p

p2pVars == <<p2psIn, excludeArg, nbootArg, equilT, tauInt, p2pSeries, trajectories, colWrites, fillI, fillJ, draws, p2pAvg, p2pStd, pcP2p>>

VARIABLES
    \* write_initial_config
    cfgArgs,                    \* the scalar arguments and layer_distribution
    cfgPositions,               \* positions, the array of the caller, by column
    cfgFlip, cfgFlipped,        \* whether a flipped variant is given, and the variant
    cfgUnflipped,               \* the copy of positions of line 274
    cfgLines,                   \* the title, the count and the box line written
    cfgRecords,                 \* the atom records written
    cfgAtomCount, cfgMonomerCount,
    cfgPore,                    \* the loop variable l
    pcCfg

cfgVars == <<cfgArgs, cfgPositions, cfgFlip, cfgFlipped, cfgUnflipped, cfgLines, cfgRecords, cfgAtomCount, cfgMonomerCount, cfgPore, pcCfg>>

VARIABLES
    \* totals.py
    rdfFiles,                   \* the cache files: path -> object
    rdfRun,                     \* which run of the script this is
    rdfI,                       \* the loop variable i
    rdf,                        \* rdf
    rdfCalls,                   \* calls of calculate_rdf per residue in this run
    rdfPlots,                   \* the curves given to plt.plot
    pcRdf

rdfVars == <<rdfFiles, rdfRun, rdfI, rdf, rdfCalls, rdfPlots, pcRdf>>

VARIABLES
    \* Structure_char.py run as a script
    scFile,                     \* the array in the file p2ps
    scCalls,                    \* the calls made so far, in order
    scPrinted,                  \* what line 140 prints
    pcSc

scVars == <<scFile, scCalls, scPrinted, pcSc>>

VARIABLES
    \* read_gro_coords(file) on any stream
    rgFile,                     \* the lines of the stream
    rgXyz, rgIdentity, rgNoAtoms,
    pcRg

rgVars == <<rgFile, rgXyz, rgIdentity, rgNoAtoms, pcRg>>

VARIABLES
    \* WAXS.py calibration, lines 21-27
    axial,                      \* the centre column of the cropped image
    Imax_pixel, pixel_to_q, qmax,
    pcCal                       \* "copied" | "zeroed" | "calibrated" | "IndexError"

calVars == <<axial, Imax_pixel, pixel_to_q, qmax, pcCal>>

vars == <<asmVars, groVars, ndxVars, isectVars, ovlVars, areaVars, hbVars, waxsVars, tiltVars, lfVars, pdbVars, eclVars, p2pVars, cfgVars, rdfVars, scVars, rgVars, calVars>>

-----------------------------------------------------------------------------
(* Python text primitives *)

Min2(x, y) == IF x <= y THEN x ELSE y
Max2(x, y) == IF x >= y THEN x ELSE y

DigitChars == <<"0", "1", "2", "3", "4", "5", "6", "7", "8", "9">>

IsDigit(c) == \E d \in 1..10 : DigitChars[d] = c

DigitOf(c) == (CHOOSE d \in 1..10 : DigitChars[d] = c) - 1

\* the characters str.strip, str.split, int and float take as whitespace:
\* blank, \n, \t, \r, form feed and vertical tab
IsSpace(c) == c \in {" ", "\n", "\t", "\r", "\f", ""}

RECURSIVE NatStr(_)
NatStr(n) ==
    IF n < 10 THEN <<DigitChars[n + 1]>>
    ELSE NatStr(n \div 10) \o <<DigitChars[(n % 10) + 1]>>

\* str(n), and the digits '{:d}' produces
IntStr(n) == IF n < 0 THEN <<"-">> \o NatStr(-n) ELSE NatStr(n)

Spaces(n) == [j \in 1..n |-> " "]

\* a field narrower than the text is widened, never cut
RJust(s, w) == IF Len(s) >= w THEN s ELSE Spaces(w - Len(s)) \o s
LJust(s, w) == IF Len(s) >= w THEN s ELSE s \o Spaces(w - Len(s))

FmtD(n, w) == RJust(IntStr(n), w)       \* '{:wd}'
FmtDL(n, w) == LJust(IntStr(n), w)      \* '{:<wd}'
FmtS(s, w) == LJust(s, w)               \* '{:ws}' and '{:<ws}'
FmtSR(s, w) == RJust(s, w)              \* '{:>ws}'

\* s[i:j] for 0 <= i, 0 <= j
PySlice(s, i, j) ==
    LET lo == Min2(i, Len(s))
        hi == Min2(j, Len(s))
    IN  IF hi <= lo THEN <<>> ELSE SubSeq(s, lo + 1, hi)

RECURSIVE LStrip(_)
LStrip(s) == IF s # <<>> /\ IsSpace(Head(s)) THEN LStrip(Tail(s)) ELSE s

RECURSIVE RStrip(_)
RStrip(s) ==
    IF s # <<>> /\ IsSpace(s[Len(s)]) THEN RStrip(SubSeq(s, 1, Len(s) - 1)) ELSE s

Strip(s) == RStrip(LStrip(s))           \* str.strip

RECURSIVE DigitsVal(_)
DigitsVal(s) ==
    IF s = <<>> THEN 0 ELSE 10 * DigitsVal(SubSeq(s, 1, Len(s) - 1)) + DigitOf(s[Len(s)])

AllDigits(s) == s # <<>> /\ \A p \in 1..Len(s) : IsDigit(s[p])

\* int(s) of Python 2: surrounding whitespace is dropped, one sign is
\* allowed and whitespace may follow it; anything else raises ValueError
IntDigits(s) ==
    LET t == Strip(s)
    IN  IF t # <<>> /\ Head(t) \in {"-", "+"} THEN LStrip(Tail(t)) ELSE t

IntOk(s) == AllDigits(IntDigits(s))

PyInt(s) ==
    IF Strip(s) # <<>> /\ Head(Strip(s)) = "-" THEN 0 - DigitsVal(IntDigits(s))
    ELSE DigitsVal(IntDigits(s))

\* line.count(sub) # 0
Contains(s, sub) ==
    \E p \in 1..(Len(s) - Len(sub) + 1) : SubSeq(s, p, p + Len(sub) - 1) = sub

RECURSIVE Concat(_)
Concat(ss) == IF ss = <<>> THEN <<>> ELSE Head(ss) \o Concat(Tail(ss))

\* the lines of a text, each with its "\n"; a last line without one is
\* kept as it is
SplitLines(txt) ==
    LET nl == {p \in 1..Len(txt) : txt[p] = "\n"}
        n == Cardinality(nl)
        end(k) == IF k = 0 THEN 0
                  ELSE CHOOSE p \in nl : Cardinality({q \in nl : q <= p}) = k
    IN  [k \in 1..n |-> SubSeq(txt, end(k - 1) + 1, end(k))]
          \o (IF end(n) < Len(txt) THEN <<SubSeq(txt, end(n) + 1, Len(txt))>> ELSE <<>>)

\* the lines of the file made by a sequence of writes; `cur` is the text
\* written since the last "\n"
RECURSIVE FileLines(_, _)
FileLines(ws, cur) ==
    IF ws = <<>> THEN (IF cur = <<>> THEN <<>> ELSE <<cur>>)
    ELSE LET got == SplitLines(cur \o Head(ws))
             open == got # <<>> /\ got[Len(got)][Len(got[Len(got)])] # "\n"
         IN  IF open
             THEN SubSeq(got, 1, Len(got) - 1) \o FileLines(Tail(ws), got[Len(got)])
             ELSE got \o FileLines(Tail(ws), <<>>)

\* line.split(): the whitespace-separated fields of a line
RECURSIVE SplitWs(_, _)
SplitWs(s, cur) ==
    IF s = <<>> THEN (IF cur = <<>> THEN <<>> ELSE <<cur>>)
    ELSE IF IsSpace(Head(s))
         THEN (IF cur = <<>> THEN <<>> ELSE <<cur>>) \o SplitWs(Tail(s), <<>>)
         ELSE SplitWs(Tail(s), cur \o <<Head(s)>>)

Tokens(s) == SplitWs(s, <<>>)

-----------------------------------------------------------------------------
(* Floats

   A float is modelled exactly, as a fraction <<n, d>> in lowest terms with
   d > 0; <<1, 0>> and <<-1, 0>> are +inf and -inf and <<0, 0>> is nan, the
   values numpy gives a division by zero.  Rounding is not modelled. *)

Abs(x) == IF x < 0 THEN 0 - x ELSE x

RECURSIVE Pow10(_)
Pow10(n) == IF n = 0 THEN 1 ELSE 10 * Pow10(n - 1)

RECURSIVE Gcd(_, _)
Gcd(x, y) == IF y = 0 THEN x ELSE Gcd(y, x % y)

Sign(x) == IF x > 0 THEN 1 ELSE IF x < 0 THEN 0 - 1 ELSE 0

Frac(n, d) ==
    IF d = 0 THEN <<Sign(n), 0>>
    ELSE LET g == Gcd(Abs(n), Abs(d))
         IN  <<(Sign(d) * n) \div g, Abs(d) \div g>>

Num(i) == <<i, 1>>
Nan == <<0, 0>>
Inf == <<1, 0>>                          \* float('inf')

IsNan(x) == x = Nan
IsInf(x) == x[2] = 0 /\ x[1] # 0
IsFinite(x) == x[2] > 0

FNeg(x) == <<0 - x[1], x[2]>>
FAbs(x) == <<Abs(x[1]), x[2]>>

FAdd(x, y) ==
    IF IsNan(x) \/ IsNan(y) THEN Nan
    ELSE IF IsInf(x) /\ IsInf(y) THEN (IF x = y THEN x ELSE Nan)
    ELSE IF IsInf(x) THEN x
    ELSE IF IsInf(y) THEN y
    ELSE Frac(x[1] * y[2] + y[1] * x[2], x[2] * y[2])

FSub(x, y) == FAdd(x, FNeg(y))

FMul(x, y) ==
    IF IsNan(x) \/ IsNan(y) THEN Nan
    ELSE IF IsInf(x) \/ IsInf(y) THEN <<Sign(x[1]) * Sign(y[1]), 0>>
    ELSE Frac(x[1] * y[1], x[2] * y[2])

FDiv(x, y) ==
    IF IsNan(x) \/ IsNan(y) THEN Nan
    ELSE IF IsInf(x) THEN (IF IsInf(y) THEN Nan
                           ELSE <<x[1] * (IF y[1] < 0 THEN 0 - 1 ELSE 1), 0>>)
    ELSE IF IsInf(y) THEN Num(0)
    ELSE IF y[1] = 0 THEN <<Sign(x[1]), 0>>
    ELSE Frac(x[1] * y[2], x[2] * y[1])

\* x > y and x == y; every comparison with nan is false
FGt(x, y) ==
    /\ ~IsNan(x) /\ ~IsNan(y)
    /\ IF IsInf(x) \/ IsInf(y)
       THEN x # y /\ (x = Inf \/ y = FNeg(Inf))
       ELSE x[1] * y[2] > y[1] * x[2]

FEq(x, y) == ~IsNan(x) /\ ~IsNan(y) /\ x = y

UpperChars == <<"A", "E", "F", "I", "N", "T", "Y">>
LowerChars == <<"a", "e", "f", "i", "n", "t", "y">>

\* str.lower on the letters of 'infinity', 'nan' and the exponent mark
Lower(c) ==
    IF \E k \in 1..Len(UpperChars) : UpperChars[k] = c
    THEN LowerChars[CHOOSE k \in 1..Len(UpperChars) : UpperChars[k] = c]
    ELSE c

Lowered(s) == [k \in 1..Len(s) |-> Lower(s[k])]

\* the text of a float without surrounding whitespace and sign
FloatBody(s) ==
    LET t == Strip(s)
    IN  IF t # <<>> /\ Head(t) \in {"-", "+"} THEN Tail(t) ELSE t

FloatNegative(s) == Strip(s) # <<>> /\ Head(Strip(s)) = "-"

InfTexts == {<<"i", "n", "f">>, <<"i", "n", "f", "i", "n", "i", "t", "y">>}
NanText == <<"n", "a", "n">>

\* digits with at most one point
MantissaOk(u) ==
    /\ \A j \in 1..Len(u) : IsDigit(u[j]) \/ u[j] = "."
    /\ \E j \in 1..Len(u) : IsDigit(u[j])
    /\ Cardinality({j \in 1..Len(u) : u[j] = "."}) <= 1

\* an optional sign and digits
ExponentOk(x) ==
    AllDigits(IF x # <<>> /\ Head(x) \in {"-", "+"} THEN Tail(x) ELSE x)

\* the place of the exponent mark, Len(u) + 1 if there is none
ExponentMark(u) ==
    LET es == {j \in 1..Len(u) : Lower(u[j]) = "e"}
    IN  IF es = {} THEN Len(u) + 1 ELSE CHOOSE j \in es : \A k \in es : j <= k

\* float(s): surrounding whitespace is dropped; an optional sign, then inf,
\* infinity or nan in any case, or digits with at most one point and an
\* optional exponent; anything else raises ValueError
FloatOk(s) ==
    LET u == FloatBody(s)
        e == ExponentMark(u)
    IN  \/ Lowered(u) \in InfTexts \cup {NanText}
        \/ /\ MantissaOk(SubSeq(u, 1, e - 1))
           /\ e <= Len(u) => ExponentOk(SubSeq(u, e + 1, Len(u)))

\* the value of digits with at most one point
MantissaVal(u) ==
    LET dots == {j \in 1..Len(u) : u[j] = "."}
        dot == IF dots = {} THEN Len(u) + 1 ELSE CHOOSE j \in dots : TRUE
        decimals == SubSeq(u, dot + 1, Len(u))
    IN  Frac(DigitsVal(SubSeq(u, 1, dot - 1)) * Pow10(Len(decimals)) + DigitsVal(decimals),
             Pow10(Len(decimals)))

ExponentVal(x) ==
    IF x = <<>> THEN 0
    ELSE IF Head(x) = "-" THEN 0 - DigitsVal(Tail(x))
    ELSE IF Head(x) = "+" THEN DigitsVal(Tail(x))
    ELSE DigitsVal(x)

RECURSIVE LeadingZeros(_)
LeadingZeros(ds) ==
    IF ds # <<>> /\ Head(ds) = 0 THEN 1 + LeadingZeros(Tail(ds)) ELSE 0

\* the digits of a mantissa without its point
MantissaDigits(u) ==
    LET ds == SelectSeq(u, IsDigit) IN [k \in 1..Len(ds) |-> DigitOf(ds[k])]

\* a decimal number 0.d1 d2 ... * 10^E, d1 # 0: its digits d and its E;
\* no digit for the number 0
Significant(u, x) ==
    LET ds == MantissaDigits(u)
        z == LeadingZeros(ds)
        dots == {j \in 1..Len(u) : u[j] = "."}
        whole == IF dots = {} THEN Len(ds) ELSE (CHOOSE j \in dots : TRUE) - 1
    IN  <<SubSeq(ds, z + 1, Len(ds)), whole - z + x>>

\* 2^1024 - 2^970, halfway from the largest double to 2^1024: a number of
\* this size or more rounds out of the range of a double (ties go to the
\* even neighbour, which is 2^1024)
HalfwayToInf ==
    <<1, 7, 9, 7, 6, 9, 3, 1, 3, 4, 8, 6, 2, 3, 1, 5, 8, 0, 7, 9, 3, 7, 2, 8, 9, 7, 1, 4, 0, 5,
      3, 0, 3, 4, 1, 5, 0, 7, 9, 9, 3, 4, 1, 3, 2, 7, 1, 0, 0, 3, 7, 8, 2, 6, 9, 3, 6, 1, 7, 3,
      7, 7, 8, 9, 8, 0, 4, 4, 4, 9, 6, 8, 2, 9, 2, 7, 6, 4, 7, 5, 0, 9, 4, 6, 6, 4, 9, 0, 1, 7,
      9, 7, 7, 5, 8, 7, 2, 0, 7, 0, 9, 6, 3, 3, 0, 2, 8, 6, 4, 1, 6, 6, 9, 2, 8, 8, 7, 9, 1, 0,
      9, 4, 6, 5, 5, 5, 5, 4, 7, 8, 5, 1, 9, 4, 0, 4, 0, 2, 6, 3, 0, 6, 5, 7, 4, 8, 8, 6, 7, 1,
      5, 0, 5, 8, 2, 0, 6, 8, 1, 9, 0, 8, 9, 0, 2, 0, 0, 0, 7, 0, 8, 3, 8, 3, 6, 7, 6, 2, 7, 3,
      8, 5, 4, 8, 4, 5, 8, 1, 7, 7, 1, 1, 5, 3, 1, 7, 6, 4, 4, 7, 5, 7, 3, 0, 2, 7, 0, 0, 6, 9,
      8, 5, 5, 5, 7, 1, 3, 6, 6, 9, 5, 9, 6, 2, 2, 8, 4, 2, 9, 1, 4, 8, 1, 9, 8, 6, 0, 8, 3, 4,
      9, 3, 6, 4, 7, 5, 2, 9, 2, 7, 1, 9, 0, 7, 4, 1, 6, 8, 4, 4, 4, 3, 6, 5, 5, 1, 0, 7, 0, 4,
      3, 4, 2, 7, 1, 1, 5, 5, 9, 6, 9, 9, 5, 0, 8, 0, 9, 3, 0, 4, 2, 8, 8, 0, 1, 7, 7, 9, 0, 4,
      1, 7, 4, 4, 9, 7, 7, 9, 2>>

\* halfway between the two doubles next to a tenth of HalfwayToInf: a number
\* of this size or more rounds to a double whose product with 10 is out of
\* range
TenthHalfway ==
    <<1, 7, 9, 7, 6, 9, 3, 1, 3, 4, 8, 6, 2, 3, 1, 5, 8, 8, 2, 7, 8, 1, 3, 0, 1, 3, 2, 1, 6, 0,
      5, 0, 2, 7, 0, 8, 7, 9, 1, 3, 3, 1, 8, 0, 6, 5, 9, 8, 1, 8, 2, 4, 4, 9, 6, 8, 9, 1, 1, 6,
      0, 0, 5, 6, 1, 3, 4, 1, 0, 7, 4, 8, 9, 2, 7, 3, 1, 6, 9, 1, 0, 0, 8, 6, 1, 9, 3, 6, 1, 2,
      4, 8, 6, 2, 0, 2, 4, 5, 3, 7, 8, 9, 9, 2, 2, 6, 5, 7, 0, 1, 4, 0, 7, 6, 7, 6, 6, 9, 9, 5,
      9, 8, 0, 7, 3, 1, 2, 1, 3, 5, 7, 3, 7, 9, 7, 5, 6, 7, 5, 2, 7, 2, 9, 9, 9, 4, 5, 1, 4, 7,
      4, 8, 2, 0, 4, 8, 4, 5, 3, 8, 0, 3, 1, 4, 5, 5, 6, 8, 8, 2, 6, 2, 0, 9, 8, 7, 6, 2, 9, 5,
      1, 2, 8, 4, 1, 2, 3, 8, 8, 9, 9, 8, 4, 7, 2, 5, 3, 0, 9, 3, 1, 1, 4, 6, 6, 3, 1, 2, 7, 1,
      7, 9, 0, 5, 2, 1, 4, 5, 4, 7, 5, 1, 6, 6, 2, 5, 5, 7, 8, 8, 9, 8, 1, 0, 4, 0, 0, 0, 4, 1,
      6, 3, 9, 7, 3, 9, 2, 5, 1, 0, 5, 2, 2, 8, 1, 4, 2, 5, 1, 2, 4, 5, 3, 1, 1, 0, 1, 3, 5, 6,
      0, 4, 6, 1, 1, 2, 3, 4, 3, 7, 8, 4, 6, 6, 4, 2, 5, 1, 8, 8, 7, 2, 3, 7, 2, 9, 1, 6, 9, 4,
      2, 1, 1, 7, 2, 7, 3, 6>>

\* 0.d * 10^E >= limit, a whole number given by its digits
AtLeast(sig, limit) ==
    LET d == sig[1]
        at(q, k) == IF k <= Len(q) THEN q[k] ELSE 0
        differ == {k \in 1..Max2(Len(d), Len(limit)) : at(d, k) # at(limit, k)}
        first == CHOOSE k \in differ : \A h \in differ : k <= h
    IN  /\ d # <<>>
        /\ \/ sig[2] > Len(limit)
           \/ /\ sig[2] = Len(limit)
              /\ differ = {} \/ at(d, first) > at(limit, first)

\* the digits and the decimal exponent of a text that holds a number
FloatDigits(s) ==
    LET u == FloatBody(s)
        e == ExponentMark(u)
    IN  Significant(SubSeq(u, 1, e - 1), ExponentVal(SubSeq(u, e + 1, Len(u))))

FloatIsNumber(s) == Lowered(FloatBody(s)) \notin InfTexts \cup {NanText}

\* float(s) for a text FloatOk accepts: the double nearest to the number,
\* given by the number itself while it is inside the range of a double, inf
\* from halfway to 2^1024 on, 0 below 10^-324
PyFloat(s) ==
    LET u == FloatBody(s)
        e == ExponentMark(u)
        m == MantissaVal(SubSeq(u, 1, e - 1))
        x == ExponentVal(SubSeq(u, e + 1, Len(u)))
        sig == FloatDigits(s)
        value == IF Lowered(u) = NanText THEN Nan
                 ELSE IF Lowered(u) \in InfTexts THEN Inf
                 ELSE IF sig[1] = <<>> THEN Num(0)
                 ELSE IF AtLeast(sig, HalfwayToInf) THEN Inf
                 ELSE IF sig[2] < 0 - 323 THEN Num(0)
                 ELSE IF x >= 0 THEN FMul(m, Num(Pow10(x)))
                 ELSE FDiv(m, Num(Pow10(0 - x)))
    IN  IF FloatNegative(s) THEN FNeg(value) ELSE value

\* float(s) * 10: inf where the product passes the largest double
PyFloatTimesTen(s) ==
    IF FloatIsNumber(s) /\ AtLeast(FloatDigits(s), TenthHalfway)
    THEN (IF FloatNegative(s) THEN FNeg(Inf) ELSE Inf)
    ELSE FMul(PyFloat(s), Num(10))

-----------------------------------------------------------------------------
(* write_assembly: src/llclib/file_rw.py *)

MaxAtoms == 2       \* atoms in a template
MaxBonds == 3       \* bond records in a template (more than its atoms, too)
MaxRec == 1         \* records in each of pairs, angles, propers, impropers
MaxMon == 2         \* monomer copies

At(lines, j) == lines[j + 1]            \* lines[j], 0-based as in the source

HdrAtoms == <<"[", " ", "a", "t", "o", "m", "s", " ", "]">>
HdrBonds == <<"[", " ", "b", "o", "n", "d", "s", " ", "]">>
HdrPairs == <<"[", " ", "p", "a", "i", "r", "s", " ", "]">>
HdrAngles == <<"[", " ", "a", "n", "g", "l", "e", "s", " ", "]">>
HdrDihedrals == <<"[", " ", "d", "i", "h", "e", "d", "r", "a", "l", "s", " ", "]", " ", ";", " ">>
HdrPropers == HdrDihedrals \o <<"p", "r", "o", "p", "e", "r", "s">>
HdrImpropers == HdrDihedrals \o <<"i", "m", "p", "r", "o", "p", "e", "r", "s">>
HdrVsites == <<"[", " ", "v", "i", "r", "t", "u", "a", "l", "_", "s", "i", "t", "e", "s", "4", " ", "]">>

BlankLine == <<"\n">>

\* while a[index].count(token) == 0: index += 1
\* (Len(lines) stands for running off the end of the list: IndexError)
FindHeader(lines, token) ==
    LET hits == {j \in 0..(Len(lines) - 1) : Contains(At(lines, j), token)}
    IN  IF hits = {} THEN Len(lines)
        ELSE CHOOSE j \in hits : \A h \in hits : j <= h

get_indices(lines, xl) ==
    [atoms_index |-> FindHeader(lines, HdrAtoms),
     bonds_index |-> FindHeader(lines, HdrBonds),
     pairs_index |-> FindHeader(lines, HdrPairs),
     angles_index |-> FindHeader(lines, HdrAngles),
     dihedrals_p_index |-> FindHeader(lines, HdrPropers),
     dihedrals_imp_index |-> FindHeader(lines, HdrImpropers),
     vsite_index |-> IF xl = "on" THEN FindHeader(lines, HdrVsites) ELSE 0]

\* while a[count] != '\n': count += 1; n += 1
\* (-1 stands for running off the end of the list: IndexError)
CountUntilBlank(lines, start) ==
    LET blanks == {j \in start..(Len(lines) - 1) : At(lines, j) = BlankLine}
    IN  IF blanks = {} THEN 0 - 1
        ELSE (CHOOSE j \in blanks : \A h \in blanks : j <= h) - start

\* the columns where the index fields of a bonded record are read
IndexCols == <<0, 6, 14, 22, 30>>

\* '{:6d}{:7d}...' of the nf index fields of a record, each raised by shift
ShiftedFields(line, nf, shift) ==
    Concat([j \in 1..nf |->
        FmtD(shift + PyInt(PySlice(line, IndexCols[j], IndexCols[j + 1])),
             IF j = 1 THEN 6 ELSE 7)])

\* one record of pairs, angles or dihedrals: the shifted fields and then the
\* rest of the template line, up to column `stop`
ShiftedRecord(line, nf, shift, stop) ==
    ShiftedFields(line, nf, shift) \o PySlice(line, IndexCols[nf + 1], stop)

\* the [ atoms ] loop numbering the atoms from 0
AtomsWritesFromZero(lines, atoms_index, n, mons) ==
    [m \in 1..(mons * n) |->
        LET i == (m - 1) \div n
            k == (m - 1) % n
            line == At(lines, k + atoms_index + 2)
        IN  FmtD(i * n + k, 5)
              \o FmtS(PySlice(line, 6, 29), 25)
              \o FmtD(i * n + PyInt(PySlice(line, 29, 34)), 5)
              \o PySlice(line, 34, Len(line))]

\* the writes of the [ atoms ] loop (lines 97-101)
AtomsWrites(lines, atoms_index, n, mons) ==
    [m \in 1..(mons * n) |->
        LET i == (m - 1) \div n
            k == (m - 1) % n
            line == At(lines, k + atoms_index + 2)
        IN  FmtD(i * n + k + 1, 5)
              \o FmtS(PySlice(line, 6, 29), 25)
              \o FmtD(i * n + PyInt(PySlice(line, 29, 34)), 5)
              \o PySlice(line, 34, Len(line))]

\* column where the rest of bond record k ends: the source takes the length
\* of line k of the [ atoms ] section (line 118: a[k + atoms_index + 2])
BondStop(lines, atoms_index, bonds_index, k) ==
    Len(At(lines, k + atoms_index + 2))

\* the writes of the [ bonds ] loop (lines 115-118)
BondsWrites(lines, atoms_index, bonds_index, n, nb, mons) ==
    [m \in 1..(mons * nb) |->
        LET i == (m - 1) \div nb
            k == (m - 1) % nb
            line == At(lines, k + bonds_index + 2)
        IN  ShiftedRecord(line, 2, i * n,
                          BondStop(lines, atoms_index, bonds_index, k))]

\* the writes of the loops of pairs, angles, propers and impropers: `first`
\* is the line of the section's first record
SectionWrites(lines, first, nf, n, cnt, mons) ==
    [m \in 1..(mons * cnt) |->
        LET i == (m - 1) \div cnt
            k == (m - 1) % cnt
            line == At(lines, k + first)
        IN  ShiftedRecord(line, nf, i * n, Len(line))]

\* the writes of the [ virtual_sites4 ] loop (lines 208-217)
VsiteWrites(lines, vsite_index, n, nv, mons) ==
    [m \in 1..(mons * nv) |->
        LET i == (m - 1) \div nv
            k == (m - 1) % nv
            line == At(lines, k + vsite_index + 2)
        IN  FmtDL(i * n + PyInt(PySlice(line, 0, 8)), 8)
              \o FmtDL(i * n + PyInt(PySlice(line, 8, 14)), 6)
              \o FmtDL(i * n + PyInt(PySlice(line, 14, 20)), 6)
              \o FmtDL(i * n + PyInt(PySlice(line, 20, 26)), 6)
              \o FmtDL(i * n + PyInt(PySlice(line, 26, 34)), 8)
              \o FmtDL(PyInt(PySlice(line, 34, 42)), 8)
              \o FmtS(PySlice(line, 42, 53), 11)
              \o FmtS(PySlice(line, 53, 64), 11)
              \o PySlice(line, 64, Len(line))]

(* Templates.  A record line is laid out in the columns the slices of
   write_assembly read: an index field is right-justified in 6 columns and
   followed by one blank, the atoms line holds nr in [0,6), four text fields
   in [6,29) and cgnr in [29,34). *)

AtomTail == <<" ", "q", "\n">>

AtomLine(k) ==
    FmtD(k + 1, 6) \o <<" ">> \o FmtSR(<<"c", "3">>, 4) \o <<" ">> \o FmtD(1, 5)
      \o <<" ">> \o FmtSR(<<"H", "I", "I">>, 5)
      \o <<" ">> \o FmtSR(<<"C">> \o NatStr(k + 1), 5)
      \o <<" ">> \o FmtD(k + 1, 4) \o AtomTail

\* the parameters and comment after the function type of a bonded record
ShortTail == <<"\n">>
LongTail == <<" ">> \o NatStr(109200) \o <<" ">> \o NatStr(282250)
              \o <<" ", ";", " ", "C", "-", "H", "\n">>

\* record k of a section with nf index fields, over a template of n atoms
IndexLine(k, nf, n, funct, tail) ==
    Concat([j \in 1..nf |-> FmtD(((k + j - 1) % n) + 1, 6) \o <<" ">>])
      \o FmtD(funct, IF nf = 2 THEN 3 ELSE 6) \o tail

VsiteLine(k, n) ==
    FmtDL((k % n) + 1, 8) \o FmtDL(((k + 1) % n) + 1, 6) \o FmtDL(((k + 2) % n) + 1, 6)
      \o FmtDL(((k + 3) % n) + 1, 6) \o FmtDL(((k + 4) % n) + 1, 8) \o FmtDL(2, 8)
      \o FmtS(<<"0", ".", "5">>, 11) \o FmtS(<<"0", ".", "2">>, 11)
      \o <<"0", ".", "1", "\n">>

Comment == <<";", "c", "\n">>

Template(n, nb, nx, tail, xl) ==
    << <<"[", " ", "m", " ", "]", "\n">>, <<"H", "I", "I", " ", "3", "\n">>, BlankLine,
       HdrAtoms \o <<"\n">>, Comment >>
      \o [k \in 1..n |-> AtomLine(k - 1)] \o <<BlankLine>>
      \o <<HdrBonds \o <<"\n">>, Comment>>
      \o [k \in 1..nb |-> IndexLine(k - 1, 2, n, 1, tail)] \o <<BlankLine>>
      \o <<HdrPairs \o <<"\n">>, Comment>>
      \o [k \in 1..nx |-> IndexLine(k - 1, 2, n, 1, tail)] \o <<BlankLine>>
      \o <<HdrAngles \o <<"\n">>, Comment>>
      \o [k \in 1..nx |-> IndexLine(k - 1, 3, n, 1, tail)] \o <<BlankLine>>
      \o <<HdrPropers \o <<"\n">>, Comment, Comment>>
      \o [k \in 1..nx |-> IndexLine(k - 1, 4, n, 9, tail)] \o <<BlankLine>>
      \o <<HdrImpropers \o <<"\n">>, Comment, Comment>>
      \o [k \in 1..nx |-> IndexLine(k - 1, 4, n, 4, tail)] \o <<BlankLine>>
      \o (IF xl = "on"
          THEN <<HdrVsites \o <<"\n">>, Comment>> \o [k \in 1..nx |-> VsiteLine(k - 1, n)]
          ELSE <<>>)

InitAsm ==
    /\ xlink \in {"on", "off"}
    /\ no_mon \in 1..MaxMon
    /\ \E n \in 1..MaxAtoms, nb \in 0..MaxBonds, nx \in 0..MaxRec,
          tail \in {ShortTail, LongTail} :
            a = Template(n, nb, nx, tail, xlink)
    /\ nr = 0
    /\ f = <<>>
    /\ pcAsm = "atoms"

IdleAsm ==
    /\ a = <<>>
    /\ xlink = "off"
    /\ no_mon = 0
    /\ nr = 0
    /\ f = <<>>
    /\ pcAsm = "idle"

notAsm == <<groVars, ndxVars, isectVars, ovlVars, areaVars, hbVars, waxsVars, tiltVars, lfVars, pdbVars, eclVars, p2pVars, cfgVars, rdfVars, scVars, rgVars, calVars>>

\* lines 86-103: everything up to the header line after [ atoms ], then the
\* atoms of every copy
WriteAtoms ==
    /\ pcAsm = "atoms"
    /\ LET ix == get_indices(a, xlink)
           n == CountUntilBlank(a, ix.atoms_index + 2)
       IN  /\ nr' = n
           /\ f' = [j \in 1..(ix.atoms_index + 2) |-> At(a, j - 1)]
                     \o AtomsWrites(a, ix.atoms_index, n, no_mon)
                     \o <<BlankLine>>
    /\ pcAsm' = "bonds"
    /\ UNCHANGED <<a, xlink, no_mon, notAsm>>

\* lines 107-120
WriteBonds ==
    /\ pcAsm = "bonds"
    /\ LET ix == get_indices(a, xlink)
           nb == CountUntilBlank(a, ix.bonds_index + 2)
       IN  f' = f \o <<At(a, ix.bonds_index) \o At(a, ix.bonds_index + 1)>>
                  \o BondsWrites(a, ix.atoms_index, ix.bonds_index, nr, nb, no_mon)
                  \o <<BlankLine>>
    /\ pcAsm' = "pairs"
    /\ UNCHANGED <<a, xlink, no_mon, nr, notAsm>>

\* lines 124-137
WritePairs ==
    /\ pcAsm = "pairs"
    /\ LET ix == get_indices(a, xlink)
           npair == CountUntilBlank(a, ix.pairs_index + 2)
       IN  f' = f \o <<At(a, ix.pairs_index) \o At(a, ix.pairs_index + 1)>>
                  \o SectionWrites(a, ix.pairs_index + 2, 2, nr, npair, no_mon)
                  \o <<BlankLine>>
    /\ pcAsm' = "angles"
    /\ UNCHANGED <<a, xlink, no_mon, nr, notAsm>>

\* lines 141-155
WriteAngles ==
    /\ pcAsm = "angles"
    /\ LET ix == get_indices(a, xlink)
           na == CountUntilBlank(a, ix.angles_index + 2)
       IN  f' = f \o <<At(a, ix.angles_index) \o At(a, ix.angles_index + 1)>>
                  \o SectionWrites(a, ix.angles_index + 2, 3, nr, na, no_mon)
                  \o <<BlankLine>>
    /\ pcAsm' = "propers"
    /\ UNCHANGED <<a, xlink, no_mon, nr, notAsm>>

\* lines 159-175
WritePropers ==
    /\ pcAsm = "propers"
    /\ LET ix == get_indices(a, xlink)
           ndp == CountUntilBlank(a, ix.dihedrals_p_index + 3)
       IN  f' = f \o <<At(a, ix.dihedrals_p_index) \o At(a, ix.dihedrals_p_index + 2)>>
                  \o SectionWrites(a, ix.dihedrals_p_index + 3, 4, nr, ndp, no_mon)
                  \o <<BlankLine>>
    /\ pcAsm' = "impropers"
    /\ UNCHANGED <<a, xlink, no_mon, nr, notAsm>>

\* lines 179-195
WriteImpropers ==
    /\ pcAsm = "impropers"
    /\ LET ix == get_indices(a, xlink)
           ndimp == CountUntilBlank(a, ix.dihedrals_imp_index + 3)
       IN  f' = f \o <<At(a, ix.dihedrals_imp_index) \o At(a, ix.dihedrals_imp_index + 2)>>
                  \o SectionWrites(a, ix.dihedrals_imp_index + 3, 4, nr, ndimp, no_mon)
                  \o <<BlankLine>>
    /\ pcAsm' = "vsites"
    /\ UNCHANGED <<a, xlink, no_mon, nr, notAsm>>

\* lines 198-218: the virtual sites run to the end of the template, and are
\* written only when cross-linking is on; then the file is closed
WriteVsites ==
    /\ pcAsm = "vsites"
    /\ LET ix == get_indices(a, xlink)
           nv == Len(a) - (ix.vsite_index + 2)
       IN  f' = IF xlink = "on"
                THEN f \o <<At(a, ix.vsite_index) \o At(a, ix.vsite_index + 1)>>
                       \o VsiteWrites(a, ix.vsite_index, nr, nv, no_mon)
                ELSE f
    /\ pcAsm' = "done"
    /\ UNCHANGED <<a, xlink, no_mon, nr, notAsm>>

NextAsm ==
    \/ WriteAtoms
    \/ WriteBonds
    \/ WritePairs
    \/ WriteAngles
    \/ WritePropers
    \/ WriteImpropers
    \/ WriteVsites

(* Reading a topology back: the records of a section are the lines between
   the section's header lines and the next blank line. *)

OutLines == FileLines(f, <<>>)

\* the records of the section headed `hdr`, `skip` lines below the header
Records(lines, hdr, skip) ==
    LET h == FindHeader(lines, hdr)
        last == Len(lines) - 1
        blanks == {j \in (h + skip)..last : At(lines, j) = BlankLine}
        stop == IF blanks = {} THEN last + 1
                ELSE CHOOSE j \in blanks : \A b \in blanks : j <= b
    IN  [k \in 1..(stop - h - skip) |-> At(lines, h + skip + k - 1)]

\* the six sections of the claim: header, header lines in the template,
\* number of atom-index fields, column where the rest of the record starts
Sections ==
    {[hdr |-> HdrAtoms, skip |-> 2, nf |-> 1, rest |-> 34],
     [hdr |-> HdrBonds, skip |-> 2, nf |-> 2, rest |-> 14],
     [hdr |-> HdrPairs, skip |-> 2, nf |-> 2, rest |-> 14],
     [hdr |-> HdrAngles, skip |-> 2, nf |-> 3, rest |-> 22],
     [hdr |-> HdrPropers, skip |-> 3, nf |-> 4, rest |-> 30],
     [hdr |-> HdrImpropers, skip |-> 3, nf |-> 4, rest |-> 30]}

TemplateRecords(sec) == Records(a, sec.hdr, sec.skip)
WrittenRecords(sec) == Records(OutLines, sec.hdr, 2)

TemplateAtoms == Len(Records(a, HdrAtoms, 2))

\* field j of a record is the number n
FieldIs(line, j, n) ==
    LET t == Tokens(line)
    IN  j <= Len(t) /\ IntOk(t[j]) /\ PyInt(t[j]) = n

IsSuffix(t, s) == Len(t) <= Len(s) /\ SubSeq(s, Len(s) - Len(t) + 1, Len(s)) = t

\* C1: in every section of the written topology, record k of copy i carries
\* the atom indices of template record k raised by i * nr, the copies follow
\* one another in order, and the section holds no_mon times the template's
\* records.
C1_IndicesShifted ==
    pcAsm = "done" =>
        \A sec \in Sections :
            LET T == TemplateRecords(sec)
                O == WrittenRecords(sec)
            IN  /\ Len(O) = no_mon * Len(T)
                /\ \A i \in 0..(no_mon - 1), k \in 1..Len(T), j \in 1..sec.nf :
                      /\ i * Len(T) + k <= Len(O)
                      /\ FieldIs(O[i * Len(T) + k], j,
                                 PyInt(Tokens(T[k])[j]) + i * TemplateAtoms)

\* C2: in every section, bonds too, what follows the index fields of a
\* written record is the text of the template record from the same field on,
\* whole.
C2_RestUnchanged ==
    pcAsm = "done" =>
        \A sec \in Sections :
            LET T == TemplateRecords(sec)
                O == WrittenRecords(sec)
            IN  \A i \in 0..(no_mon - 1), k \in 1..Len(T) :
                  /\ i * Len(T) + k <= Len(O)
                  /\ IsSuffix(PySlice(T[k], sec.rest, Len(T[k])), O[i * Len(T) + k])

\* C3 as stated: the atom records of copy 0 are the template's atom records,
\* character for character.
C3_Copy0ByteIdentical ==
    pcAsm = "done" =>
        LET T == Records(a, HdrAtoms, 2)
            O == Records(OutLines, HdrAtoms, 2)
        IN  \A k \in 1..Len(T) : k <= Len(O) /\ O[k] = T[k]

\* C3 amended: the atom records of copy 0 hold the template's fields, the
\* same values in the same order, in another layout: nr is written in 5
\* columns where the template has 6 and the text of columns [6,29) in 25, so
\* the written line is one character longer than the template's.
C3_Copy0SameFields ==
    pcAsm = "done" =>
        LET T == Records(a, HdrAtoms, 2)
            O == Records(OutLines, HdrAtoms, 2)
        IN  \A k \in 1..Len(T) :
              /\ k <= Len(O)
              /\ Tokens(O[k]) = Tokens(T[k])
              /\ Len(O[k]) = Len(T[k]) + 1
              /\ PySlice(O[k], 35, Len(O[k])) = PySlice(T[k], 34, Len(T[k]))

C3_Witness ==
    /\ pcAsm = "done"
    /\ no_mon >= 2
    /\ TemplateAtoms >= 2
    /\ Len(Records(OutLines, HdrAtoms, 2)) = no_mon * TemplateAtoms

-----------------------------------------------------------------------------
(* write_gro and read_gro_coords: src/llclib/file_rw.py *)

MaxWin == 1         \* atoms of the frame that are modelled line by line

\* the digits of n, zero-filled on the left to w digits
ZeroFill(n, w) == LET t == NatStr(n) IN [j \in 1..(w - Len(t)) |-> "0"] \o t

\* a magnitude m in units of 10^-d written with d decimals
FixedText(neg, m, d) ==
    (IF neg THEN <<"-">> ELSE <<>>)
      \o NatStr(m \div Pow10(d)) \o <<".">> \o ZeroFill(m % Pow10(d), d)

\* '{:8.3f}' of a coordinate x given in units of 1e-4: the thousandths it
\* rounds to.  A float is never exactly half way between two thousandths, so
\* where the model's fourth decimal is 5 the binary value decides, either way.
ThousandthsCut(x) == {Abs(x) \div 10}

Thousandths(x) ==
    LET q == Abs(x) \div 10
        r == Abs(x) % 10
    IN  IF r < 5 THEN {q} ELSE IF r > 5 THEN {q + 1} ELSE {q, q + 1}

Fmt8_3f(x) == {RJust(FixedText(x < 0, m, 3), 8) : m \in Thousandths(x)}

\* '{:10f}' of a box length given in units of 1e-6
Fmt10f(x) == RJust(FixedText(x < 0, Abs(x), 6), 10)

HOH == <<"H", "O", "H">>
SOL == <<"S", "O", "L">>

\* line 409: d = {'H1': 'HW1', 'H2': 'HW2', 'O': 'OW'}
WaterNames ==
    (<<"H", "1">> :> <<"H", "W", "1">>) @@ (<<"H", "2">> :> <<"H", "W", "2">>)
      @@ (<<"O">> :> <<"O", "W">>)

\* d[name]: a name that is no key of d has no value (KeyError)
WaterName(name) == WaterNames[name]

\* line 413: d[a.name] raises KeyError for a HOH atom whose name is no key
WrittenNameRaises(atom) == atom.res = HOH /\ atom.name \notin DOMAIN WaterNames

\* the names write_gro puts on the line of an atom (lines 413-418)
WrittenResName(atom) == IF atom.res = HOH THEN SOL ELSE atom.res
WrittenName(atom) == IF atom.res = HOH THEN WaterName(atom.name) ELSE atom.name

\* the lines write_gro can write for atom number cnt (0-based) of the frame
AtomRecords(atom, cnt, p) ==
    {FmtD(atom.resindex + 1, 5) \o FmtS(WrittenResName(atom), 5)
        \o FmtSR(WrittenName(atom), 5) \o FmtD(cnt + 1, 5)
        \o tx \o ty \o tz \o <<"\n">> :
            tx \in Fmt8_3f(p[1]), ty \in Fmt8_3f(p[2]), tz \in Fmt8_3f(p[3])}

\* lines 421-423
BoxLine(box) ==
    Fmt10f(box[1][1]) \o Fmt10f(box[2][2]) \o Fmt10f(box[3][3])
      \o Fmt10f(box[1][2]) \o Fmt10f(box[3][1]) \o Fmt10f(box[2][1])
      \o Fmt10f(box[1][3]) \o Fmt10f(box[2][3]) \o Fmt10f(box[3][1]) \o <<"\n">>

TitleLine == <<"T", "h", "i", "s", " ", "i", "s", " ", "a", " ", ".", "g", "r", "o",
               " ", "f", "i", "l", "e", "\n">>

\* the records of atoms j..last
RECURSIVE RecordsFrom(_, _, _, _, _)
RecordsFrom(atoms, first, ps, j, last) ==
    IF j > last THEN {<<>>}
    ELSE {<<l>> \o rest : l \in AtomRecords(atoms[j], first + j - 1, ps[j]),
                          rest \in RecordsFrom(atoms, first, ps, j + 1, last)}

\* the loop of lines 411-419 ends in KeyError at the first HOH atom whose
\* name is no key of d
write_groRaises(atoms) == \E j \in 1..Len(atoms) : WrittenNameRaises(atoms[j])

\* the atoms written: all of them, or those before the one that raises
AtomsWritten(atoms) ==
    IF write_groRaises(atoms)
    THEN (CHOOSE j \in 1..Len(atoms) :
              /\ WrittenNameRaises(atoms[j])
              /\ \A k \in 1..(j - 1) : ~WrittenNameRaises(atoms[k])) - 1
    ELSE Len(atoms)

\* the files write_gro can leave (lines 403-423): a whole file, or one that
\* ends before the record of the atom that raised KeyError; the count0 atom
\* lines that precede the modelled ones are left out of the text
write_gro(atoms, first, ps, box) ==
    {<<TitleLine, IntStr(first + Len(atoms)) \o <<"\n">>>> \o body
        \o (IF write_groRaises(atoms) THEN <<>> ELSE <<BoxLine(box)>>) :
        body \in RecordsFrom(atoms, first, ps, 1, AtomsWritten(atoms))}

\* float(a[i][lo:hi])*10 (line 56)
ReadCoord(line, lo, hi) == PyFloatTimesTen(PySlice(line, lo, hi))

\* str.strip(a[i][11:16]) (line 57)
ReadName(line) == Strip(PySlice(line, 11, 16))

lines_of_text == 2

CoordsOk(line) ==
    /\ FloatOk(PySlice(line, 20, 28))
    /\ FloatOk(PySlice(line, 28, 36))
    /\ FloatOk(PySlice(line, 36, 44))

ResA == <<"H", "I", "I">>
ResB == <<"N", "A">>

AtomKinds ==
    {[res |-> HOH, name |-> <<"H", "1">>],
     [res |-> HOH, name |-> <<"O">>],
     [res |-> HOH, name |-> <<"O", "W">>],
     [res |-> ResA, name |-> <<"C", "1">>],
     [res |-> ResA, name |-> <<"O">>],
     [res |-> ResA, name |-> <<"C", "1", "2", "3", "4">>],
     [res |-> ResB, name |-> <<"N", "A">>]}

\* coordinates in units of 1e-4: ordinary ones, ones at the edge of what
\* eight columns hold, and ones past it
Positions ==
    {<<0, 0, 0>>, <<12346, 0 - 12346, 5>>, <<0 - 4, 70015, 123>>,
     <<0 - 9999994, 99999994, 25000>>,
     <<100000000, 10000000, 10000000>>, <<12346, 0 - 10000000, 0>>}

Boxes ==
    {<< <<8000000, 0, 0>>, <<0, 8000000, 0>>, <<0, 0, 7400000>> >>,
     << <<8000000, 0, 0>>, <<0 - 4000000, 6928203, 0>>, <<0, 0, 7400000>> >>}

InitGro ==
    /\ count0 \in {0, 9999, 99999}
    /\ \E n \in 1..MaxWin :
          /\ top \in [1..n -> {[res |-> k.res, name |-> k.name, resindex |-> ri] :
                                  k \in AtomKinds, ri \in {0, 99999}}]
          /\ pos \in [1..n -> Positions]
    /\ v \in Boxes
    /\ gro = <<>>
    /\ xyz = <<>>
    /\ identity = <<>>
    /\ pcGro = "write"

IdleGro ==
    /\ count0 = 0
    /\ top = <<>>
    /\ pos = <<>>
    /\ v = <<>>
    /\ gro = <<>>
    /\ xyz = <<>>
    /\ identity = <<>>
    /\ pcGro = "idle"

notGro == <<asmVars, ndxVars, isectVars, ovlVars, areaVars, hbVars, waxsVars, tiltVars, lfVars, pdbVars, eclVars, p2pVars, cfgVars, rdfVars, scVars, rgVars, calVars>>

WriteGro ==
    /\ pcGro = "write"
    /\ gro' \in write_gro(top, count0, pos, v)
    /\ pcGro' = IF write_groRaises(top) THEN "KeyError" ELSE "read"
    /\ UNCHANGED <<count0, top, pos, v, xyz, identity, notGro>>

\* read_gro_coords on the written file (lines 43-59): no_atoms is the line
\* count less the two header lines and the box line; a slice that is no
\* number makes float() raise ValueError
ReadGro ==
    /\ pcGro = "read"
    /\ LET no_atoms == count0 + Len(gro) - lines_of_text - 1
           line(j) == gro[lines_of_text + j]
           here == 1..(no_atoms - count0)
       IN  IF \A j \in here : CoordsOk(line(j))
           THEN /\ xyz' = [j \in here |-> <<ReadCoord(line(j), 20, 28),
                                            ReadCoord(line(j), 28, 36),
                                            ReadCoord(line(j), 36, 44)>>]
                /\ identity' = [j \in here |-> ReadName(line(j))]
                /\ pcGro' = "done"
           ELSE /\ pcGro' = "ValueError"
                /\ UNCHANGED <<xyz, identity>>
    /\ UNCHANGED <<count0, top, pos, v, gro, notGro>>

NextGro ==
    \/ WriteGro
    \/ ReadGro

\* the record of modelled atom j keeps to the columns of the format: residue
\* number and serial of at most 5 digits, names of at most 5 characters,
\* coordinates that '{:8.3f}' writes in 8 characters
FitsColumns(j) ==
    /\ top[j].resindex + 1 <= 99999
    /\ count0 + j <= 99999
    /\ Len(WrittenResName(top[j])) <= 5
    /\ Len(WrittenName(top[j])) <= 5
    /\ \A c \in 1..3 : 0 - 9999995 < pos[j][c] /\ pos[j][c] < 99999995

GroFinished == pcGro \in {"done", "ValueError"}

\* a returned coordinate r, a number of hundredths, is within tol of p (both
\* in units of 1e-4); no coordinate handed to write_gro reaches 10^5, so a
\* larger r is not near any
Within(r, p, tol) ==
    /\ IsFinite(r)
    /\ 100 % r[2] = 0
    /\ Abs(r[1]) <= 10000000 * r[2]
    /\ Abs(r[1] * (100 \div r[2]) * 100 - p) <= tol

\* C4 as stated: read_gro_coords gives back every coordinate handed to
\* write_gro to within 0.0005 (5 units of 1e-4).
C4_RoundTripSame ==
    GroFinished =>
        /\ pcGro = "done"
        /\ Len(xyz) = Len(pos)
        /\ \A j \in 1..Len(pos), c \in 1..3 : Within(xyz[j][c], pos[j][c], 5)

\* C4 amended: for a frame whose water atoms are named H1, H2 or O and
\* whose records keep to the columns of the format, write_gro writes the
\* file, read_gro_coords returns, and it gives back ten times every
\* coordinate handed to write_gro (the reader converts the file's unit by
\* 10) to within 0.005, ten times the rounding of the third decimal.
C4_RoundTripTimesTen ==
    (/\ pcGro \in {"done", "ValueError", "KeyError"}
     /\ ~write_groRaises(top)
     /\ \A j \in 1..Len(pos) : FitsColumns(j)) =>
        /\ pcGro = "done"
        /\ Len(xyz) = Len(pos)
        /\ \A j \in 1..Len(pos), c \in 1..3 :
              Within(xyz[j][c], 10 * pos[j][c], 50)

C4_Witness ==
    /\ pcGro = "done"
    /\ \A j \in 1..Len(pos) : FitsColumns(j)
    /\ \E j \in 1..Len(pos) :
          /\ pos[j][1] > 10000 /\ pos[j][2] < 0 /\ pos[j][3] % 10 = 5
          /\ xyz[j][3] = Frac(1, 100)

\* C5: every atom name read back is the name write_gro wrote: HW1, HW2 or OW
\* for the atoms of a HOH residue, the atom's own name otherwise.
C5_NamesRoundTrip ==
    pcGro = "done" =>
        /\ Len(identity) = Len(top)
        /\ \A j \in 1..Len(top) : identity[j] = WrittenName(top[j])

-----------------------------------------------------------------------------
(* write_water_ndx: src/llclib/file_rw.py *)

MaxNdxAtoms == 11   \* atoms of the topology

\* str(a.residue): the residue's name and number
ResidueStr(r) == r.name \o IntStr(r.seq)

\* 'HOH' in str(a.residue)
InWater(r) == Contains(ResidueStr(r), HOH)

\* the value written for an atom index (lines 444, 453)
NdxValueSame(index) == index

NdxValue(index) == index + 1

\* one group: '{:<8s}' of every value, a "\n" after every tenth (lines 442-447)
GroupWrites(members) ==
    [count \in 1..Len(members) |->
        IF count % 10 # 0 THEN FmtS(IntStr(NdxValue(members[count])), 8)
        ELSE FmtS(IntStr(NdxValue(members[count])), 8) \o <<"\n">>]

HdrWater == <<"[", " ", " ", "w", "a", "t", "e", "r", " ", " ", "]", "\n">>
HdrMembrane == <<"\n", "[", " ", " ", "m", "e", "m", "b", "r", "a", "n", "e", " ", " ", "]", "\n">>

\* a topology of n atoms: a membrane of s atoms (one residue HII, its last
\* atom a sodium ion of its own residue), then water molecules of 3 atoms
Topology(n, s) ==
    [j \in 1..n |->
        IF j <= s
        THEN (IF j = s /\ s > 1 THEN [name |-> ResB, seq |-> 2]
              ELSE [name |-> ResA, seq |-> 1])
        ELSE [name |-> HOH, seq |-> 3 + ((j - s - 1) \div 3)]]

InitNdx ==
    /\ \E n \in 1..MaxNdxAtoms :
          /\ keep \in SUBSET (0..(n - 1))
          /\ \E s \in {0, 1, 2, n \div 2, n} : residues = Topology(n, s)
    /\ waters = <<>>
    /\ membrane = <<>>
    /\ ndx = <<>>
    /\ pcNdx = "write"

IdleNdx ==
    /\ keep = {}
    /\ residues = <<>>
    /\ waters = <<>>
    /\ membrane = <<>>
    /\ ndx = <<>>
    /\ pcNdx = "idle"

notNdx == <<asmVars, groVars, isectVars, ovlVars, areaVars, hbVars, waxsVars, tiltVars, lfVars, pdbVars, eclVars, p2pVars, cfgVars, rdfVars, scVars, rgVars, calVars>>

\* lines 430-456: a.index runs over the atoms in order
WriteWaterNdx ==
    /\ pcNdx = "write"
    /\ LET atoms == [j \in 1..Len(residues) |-> j - 1]
           IsWater(i) == i \in keep /\ InWater(residues[i + 1])
           IsMembrane(i) == ~IsWater(i) /\ i \in keep
           w == SelectSeq(atoms, IsWater)
           m == SelectSeq(atoms, IsMembrane)
       IN  /\ waters' = w
           /\ membrane' = m
           /\ ndx' = <<HdrWater>> \o GroupWrites(w) \o <<HdrMembrane>> \o GroupWrites(m)
    /\ pcNdx' = "done"
    /\ UNCHANGED <<keep, residues, notNdx>>

NextNdx == WriteWaterNdx

(* Reading the index file back: a group is the values of the lines between
   its header and the next header. *)

NdxLines == FileLines(ndx, <<>>)

IsHeaderLine(line) == line # <<>> /\ Head(line) = "["

RECURSIVE RowValues(_)
RowValues(rows) ==
    IF rows = <<>> THEN <<>>
    ELSE [j \in 1..Len(Tokens(Head(rows))) |-> PyInt(Tokens(Head(rows))[j])]
           \o RowValues(Tail(rows))

\* the rows of group g (1 water, 2 membrane)
GroupRows(g) ==
    LET L == NdxLines
        hs == {j \in 1..Len(L) : IsHeaderLine(L[j])}
        first == CHOOSE j \in hs : \A h \in hs : j <= h
        second == CHOOSE j \in hs : \A h \in hs : h <= j
    IN  IF g = 1 THEN SubSeq(L, first + 1, second - 1)
        ELSE SubSeq(L, second + 1, Len(L))

GroupValues(g) == RowValues(GroupRows(g))

SeqRange(q) == {q[j] : j \in 1..Len(q)}

\* C6: the two groups of water_index.ndx hold together as many values as
\* atoms are retained, no value twice and none in both; the water group is
\* the retained atoms of HOH residues, the membrane group the other retained
\* atoms; every value is the atom's index + 1; no row has more than 10 values.
C6_NdxGroups ==
    pcNdx = "done" =>
        LET W == GroupValues(1)
            M == GroupValues(2)
        IN  /\ Len(W) + Len(M) = Cardinality(keep)
            /\ SeqRange(W) \cap SeqRange(M) = {}
            /\ SeqRange(W) = {i + 1 : i \in {k \in keep : residues[k + 1].name = HOH}}
            /\ SeqRange(M) = {i + 1 : i \in {k \in keep : residues[k + 1].name # HOH}}
            /\ \A g \in 1..2 : \A r \in 1..Len(GroupRows(g)) :
                  Len(Tokens(GroupRows(g)[r])) <= 10

\* a water group that fills a row of ten, beside a membrane group
C6_Witness ==
    /\ pcNdx = "done"
    /\ Len(GroupValues(1)) = 10
    /\ Len(GroupValues(2)) = 1

-----------------------------------------------------------------------------
(* Numbers of the ring geometry: src/Scripts/eclipse.py

   Floats are the fractions defined with the Python primitives. *)


\* lines 37-41
ccw(A, B, C) ==
    FGt(FMul(FSub(C[2], A[2]), FSub(B[1], A[1])),
        FMul(FSub(B[2], A[2]), FSub(C[1], A[1])))

\* lines 44-49
intersect(A, B, C, D) == ccw(A, C, D) # ccw(B, C, D) /\ ccw(A, B, C) # ccw(A, B, D)

\* what intersection returns for segments that do not cross
False == <<"False">>

\* the value of a variable before the call
None == <<>>

\* lines 52-57
slope(pt1, pt2) ==
    LET m == FDiv(FSub(pt1[2], pt2[2]), FSub(pt1[1], pt2[1]))
        b == FSub(pt1[2], FMul(m, pt1[1]))
    IN  [m |-> m, b |-> b]

\* a variant of intersection that has no case for a vertical segment
intersectionNoVertical(A, B, C, D) ==
    IF ccw(A, C, D) # ccw(B, C, D) /\ ccw(A, B, C) # ccw(A, B, D)
    THEN LET l1 == slope(A, B)
             l2 == slope(C, D)
             x_intersect == FDiv(FSub(l1.b, l2.b), FSub(l2.m, l1.m))
         IN  <<x_intersect, FAdd(FMul(l1.m, x_intersect), l1.b)>>
    ELSE False

\* lines 60-87
intersection(A, B, C, D) ==
    IF ccw(A, C, D) # ccw(B, C, D) /\ ccw(A, B, C) # ccw(A, B, D)
    THEN LET l1 == slope(A, B)
             l2 == slope(C, D)
         IN  IF FEq(FAbs(l2.m), Inf)
             THEN <<C[1], FAdd(FMul(l1.m, C[1]), l1.b)>>
             ELSE IF FEq(FAbs(l1.m), Inf)
             THEN <<A[1], FAdd(FMul(l2.m, A[1]), l2.b)>>
             ELSE LET x_intersect == FDiv(FSub(l1.b, l2.b), FSub(l2.m, l1.m))
                  IN  <<x_intersect, FAdd(FMul(l1.m, x_intersect), l1.b)>>
    ELSE False

MaxCoord == 2       \* the end points of the segments lie on the grid 0..MaxCoord

GridPoints == {<<Num(x), Num(y)>> : x \in 0..MaxCoord, y \in 0..MaxCoord}

InitIsect ==
    /\ segA \in GridPoints
    /\ segB \in GridPoints
    /\ segC \in GridPoints
    /\ segD \in GridPoints
    /\ isect = None
    /\ pcIsect = "call"

IdleIsect ==
    /\ segA = <<>>
    /\ segB = <<>>
    /\ segC = <<>>
    /\ segD = <<>>
    /\ isect = None
    /\ pcIsect = "idle"

notIsect == <<asmVars, groVars, ndxVars, ovlVars, areaVars, hbVars, waxsVars, tiltVars, lfVars, pdbVars, eclVars, p2pVars, cfgVars, rdfVars, scVars, rgVars, calVars>>

CallIntersection ==
    /\ pcIsect = "call"
    /\ isect' = intersection(segA, segB, segC, segD)
    /\ pcIsect' = "done"
    /\ UNCHANGED <<segA, segB, segC, segD, notIsect>>

NextIsect == CallIntersection

\* the cross product (Q - P) x (R - P) of points with finite coordinates
Cross(P, Q, R) ==
    FSub(FMul(FSub(Q[1], P[1]), FSub(R[2], P[2])),
         FMul(FSub(Q[2], P[2]), FSub(R[1], P[1])))

FLe(x, y) == FGt(y, x) \/ FEq(x, y)

Between(x, lo, hi) == (FLe(lo, x) /\ FLe(x, hi)) \/ (FLe(hi, x) /\ FLe(x, lo))

\* P is a point of the closed segment QR
OnSegment(P, Q, R) ==
    /\ IsFinite(P[1]) /\ IsFinite(P[2])
    /\ Cross(Q, R, P) = Num(0)
    /\ Between(P[1], Q[1], R[1])
    /\ Between(P[2], Q[2], R[2])

Parallel(A, B, C, D) ==
    FSub(FMul(FSub(B[1], A[1]), FSub(D[2], C[2])),
         FMul(FSub(B[2], A[2]), FSub(D[1], C[1]))) = Num(0)

Pt(x, y) == <<Num(x), Num(y)>>

\* C7: intersection returns False exactly when the orientation test fails,
\* which it does for every pair of parallel segments; otherwise it returns
\* a point that lies on both segments, the only such point, also when a
\* segment is vertical.  (0,0)-(1,1) and (0,1)-(1,0) give (0.5,0.5);
\* (0,0)-(1,0) and (0,1)-(1,1) give False.
C7_Intersection ==
    pcIsect = "done" =>
        /\ (isect = False) <=> ~intersect(segA, segB, segC, segD)
        /\ Parallel(segA, segB, segC, segD) => isect = False
        /\ isect # False =>
              /\ OnSegment(isect, segA, segB)
              /\ OnSegment(isect, segC, segD)
              /\ \A P \in GridPoints :
                    OnSegment(P, segA, segB) /\ OnSegment(P, segC, segD) => P = isect
        /\ (segA = Pt(0, 0) /\ segB = Pt(1, 1) /\ segC = Pt(0, 1) /\ segD = Pt(1, 0))
              => isect = <<Frac(1, 2), Frac(1, 2)>>
        /\ (segA = Pt(0, 0) /\ segB = Pt(1, 0) /\ segC = Pt(0, 1) /\ segD = Pt(1, 1))
              => isect = False

\* a crossing with a vertical segment, at a point off the grid
C7_Witness ==
    /\ pcIsect = "done"
    /\ isect # False
    /\ segC[1] = segD[1]
    /\ isect[2][2] = 2

-----------------------------------------------------------------------------
(* PolyArea: src/Scripts/eclipse.py lines 137-146 *)

\* np.roll(s, 1)
Roll(s) == [i \in 1..Len(s) |-> s[IF i = 1 THEN Len(s) ELSE i - 1]]

\* np.roll(s, -1), the shift PolyArea does not make
RollBack(s) == [i \in 1..Len(s) |-> s[IF i = Len(s) THEN 1 ELSE i + 1]]

RECURSIVE DotFrom(_, _, _)
DotFrom(x, y, i) ==
    IF i > Len(x) THEN Num(0)
    ELSE FAdd(FMul(x[i], y[i]), DotFrom(x, y, i + 1))

\* np.dot(x, y)
Dot(x, y) == DotFrom(x, y, 1)

\* the sum without the absolute value
PolyAreaSigned(x, y) ==
    FMul(Frac(1, 2), FSub(Dot(x, Roll(y)), Dot(y, Roll(x))))

PolyArea(x, y) ==
    FMul(Frac(1, 2), FAbs(FSub(Dot(x, Roll(y)), Dot(y, Roll(x)))))

MaxXY == 1          \* the vertices lie on the grid 0..MaxXY
MaxVerts == 4       \* the longest vertex list

InitArea ==
    /\ \E n \in 0..MaxVerts :
          /\ px \in [1..n -> {Num(c) : c \in 0..MaxXY}]
          /\ py \in [1..n -> {Num(c) : c \in 0..MaxXY}]
    /\ area = None
    /\ pcArea = "call"

IdleArea ==
    /\ px = <<>>
    /\ py = <<>>
    /\ area = None
    /\ pcArea = "idle"

notArea == <<asmVars, groVars, ndxVars, isectVars, ovlVars, hbVars, waxsVars, tiltVars, lfVars, pdbVars, eclVars, p2pVars, cfgVars, rdfVars, scVars, rgVars, calVars>>

CallPolyArea ==
    /\ pcArea = "call"
    /\ area' = PolyArea(px, py)
    /\ pcArea' = "done"
    /\ UNCHANGED <<px, py, notArea>>

NextArea == CallPolyArea

\* sum over i of u_i * v_(i+1), the index taken cyclically
RECURSIVE CyclicSum(_, _, _)
CyclicSum(u, nxt, i) ==
    IF i > Len(u) THEN Num(0)
    ELSE FAdd(FMul(u[i], nxt[(i % Len(u)) + 1]), CyclicSum(u, nxt, i + 1))

Shoelace(x, y) ==
    FMul(Frac(1, 2), FAbs(FSub(CyclicSum(x, y, 1), CyclicSum(y, x, 1))))

Reversed(s) == [i \in 1..Len(s) |-> s[Len(s) + 1 - i]]

RECURSIVE Rotated(_, _)
Rotated(s, k) == IF k = 0 THEN s ELSE Rotated(RollBack(s), k - 1)

\* C10: PolyArea is half the absolute value of the shoelace sum with the
\* cyclic index i+1; it is 1 for the unit square and does not change when
\* the vertex list is rotated or reversed.
C10_Shoelace ==
    pcArea = "done" =>
        /\ area = Shoelace(px, py)
        /\ (px = <<Num(0), Num(1), Num(1), Num(0)>> /\ py = <<Num(0), Num(0), Num(1), Num(1)>>)
              => area = Num(1)
        /\ \A k \in 0..Len(px) :
              /\ PolyArea(Rotated(px, k), Rotated(py, k)) = area
              /\ PolyArea(Reversed(Rotated(px, k)), Reversed(Rotated(py, k))) = area

\* the unit square listed clockwise, where the signed sum is negative
C10_Witness ==
    /\ pcArea = "done"
    /\ px = <<Num(0), Num(0), Num(1), Num(1)>>
    /\ py = <<Num(0), Num(1), Num(1), Num(0)>>
    /\ area = Num(1)

-----------------------------------------------------------------------------
(* overlap_pts, order_pts, overlap: src/Scripts/eclipse.py lines 90-159 *)

sides == 6

Origin == <<Num(0), Num(0)>>

\* shape[i, :] with Python's indexing, where -1 is the last row
Row(shape, i) == shape[((i + Len(shape)) % Len(shape)) + 1]

\* lines 94-99: the crossings of every edge of shape1 with every edge of
\* shape2, in the order of the two loops; k counts the pairs (i, j)
RECURSIVE EdgeRows(_, _, _)
EdgeRows(shape1, shape2, k) ==
    IF k = sides * sides THEN <<>>
    ELSE LET i == k \div sides
             j == k % sides
             pt == intersection(Row(shape1, i - 1), Row(shape1, i),
                                Row(shape2, j - 1), Row(shape2, j))
         IN  (IF pt # False THEN <<pt>> ELSE <<>>) \o EdgeRows(shape1, shape2, k + 1)

OnBoundary(poly, P) ==
    \E k \in 1..Len(poly) : OnSegment(P, Row(poly, k - 2), Row(poly, k - 1))

\* the ray from P towards +x crosses the edge from A to B
RayCrosses(A, B, P) ==
    /\ FGt(A[2], P[2]) # FGt(B[2], P[2])
    /\ FGt(FAdd(A[1], FDiv(FMul(FSub(B[1], A[1]), FSub(P[2], A[2])), FSub(B[2], A[2]))),
           P[1])

\* the point lies in the area the closed path encloses and not on the path:
\* a ray from it crosses the path an odd number of times
StrictlyInside(poly, P) ==
    /\ ~OnBoundary(poly, P)
    /\ Cardinality({k \in 1..Len(poly) :
                       RayCrosses(Row(poly, k - 2), Row(poly, k - 1), P)}) % 2 = 1

\* matplotlib's Path.contains_point; its result is undefined for a point on
\* the boundary: yes holds the (path, point) pairs it then answers True for
contains_point(poly, P, yes) ==
    \/ StrictlyInside(poly, P)
    \/ OnBoundary(poly, P) /\ <<poly, P>> \in yes

\* lines 107-113
RECURSIVE InsideRows(_, _, _, _)
InsideRows(shape1, shape2, yes, i) ==
    IF i = Len(shape2) THEN <<>>
    ELSE (IF contains_point(shape1, Row(shape2, i), yes) THEN <<Row(shape2, i)>> ELSE <<>>)
         \o (IF contains_point(shape2, Row(shape1, i), yes) THEN <<Row(shape1, i)>> ELSE <<>>)
         \o InsideRows(shape1, shape2, yes, i + 1)

\* the (path, point) questions of lines 107-113 whose answer is undefined
BoundaryQueries(shape1, shape2) ==
    {<<shape1, Row(shape2, i)>> : i \in {h \in 0..(sides - 1) : OnBoundary(shape1, Row(shape2, h))}}
    \cup {<<shape2, Row(shape1, i)>> : i \in {h \in 0..(sides - 1) : OnBoundary(shape2, Row(shape1, h))}}

NotOrigin(P) == P # Origin

\* lines 92-113: the rows the two loops write into the array pts
Collected(shape1, shape2, yes) ==
    EdgeRows(shape1, shape2, 0) \o InsideRows(shape1, shape2, yes, 0)

\* lines 92, 98, 109, 112: pts has sides*2 rows, a write past the last one
\* raises IndexError
overlap_ptsRaises(shape1, shape2, yes) ==
    Len(Collected(shape1, shape2, yes)) > sides * 2

\* lines 90-115: the rows written, without the rows that are zero
overlap_pts(shape1, shape2, yes) ==
    SelectSeq(Collected(shape1, shape2, yes), NotOrigin)

Range(s) == {s[i] : i \in 1..Len(s)}

\* scipy's ConvexHull (Qhull) in two dimensions: P -> Q is an edge of the
\* hull, walked counterclockwise, when every point is left of it or on it
HullEdge(P, Q, S) ==
    /\ P # Q
    /\ \A R \in S : \/ FGt(Cross(P, Q, R), Num(0))
                    \/ OnSegment(R, P, Q)

Collinear(S) == \A P, Q, R \in S : Cross(P, Q, R) = Num(0)

HullVertices(S) == {P \in S : \E Q \in S : HullEdge(P, Q, S)}

HullNext(P, S) == CHOOSE Q \in S : HullEdge(P, Q, S)

RECURSIVE HullFrom(_, _, _)
HullFrom(P, S, n) == IF n = 0 THEN <<>> ELSE <<P>> \o HullFrom(HullNext(P, S), S, n - 1)

\* line 127: Qhull raises QhullError for points that span no area
order_ptsRaises(points) == Collinear(Range(points))

\* lines 118-134: hull.vertices are counterclockwise from a vertex the
\* library chooses (first); the rows of pts_ordered after them stay zero
order_pts(points, first) ==
    LET S == Range(points)
        n == Cardinality(HullVertices(S))
    IN  HullFrom(first, S, n) \o [i \in 1..(Len(points) - n) |-> Origin]

Column(rows, c) == [i \in 1..Len(rows) |-> rows[i][c]]

\* lines 151-154: the exception that leaves overlap, "none" if it returns
overlapRaises(shape1, shape2, yes) ==
    IF overlap_ptsRaises(shape1, shape2, yes) THEN "IndexError"
    ELSE IF Len(overlap_pts(shape1, shape2, yes)) * 2 > 4
            /\ order_ptsRaises(overlap_pts(shape1, shape2, yes))
    THEN "QhullError"
    ELSE "none"

\* lines 149-159, for points that raise nothing
overlap(points, first) ==
    IF Len(points) * 2 > 4
    THEN LET pts_ordered == order_pts(points, first)
         IN  PolyArea(Column(pts_ordered, 1), Column(pts_ordered, 2))
    ELSE Num(0)

\* a ring: a convex hexagon with corners on the integer lattice
Hexagon == <<Pt(1, 0), Pt(2, 0), Pt(3, 1), Pt(2, 2), Pt(1, 2), Pt(0, 1)>>

Shifted(poly, dx, dy) ==
    [i \in 1..Len(poly) |-> <<FAdd(poly[i][1], Num(dx)), FAdd(poly[i][2], Num(dy))>>]

MaxShift == 3       \* the second ring is the first moved by 0..MaxShift along x and y
MaxStart == 1       \* the first ring starts at corner 0..MaxStart of the hexagon

\* the rings the program hands over: every ring lists its atoms in the
\* same order, once counterclockwise and once clockwise here
Rings ==
    {Shifted(Rotated(h, r), d, d) :
        h \in {Hexagon, Reversed(Hexagon)}, r \in 0..MaxStart, d \in {0 - 1, 0}}

InitOvl ==
    /\ poly1 \in Rings
    /\ \E dx \in 0..MaxShift, dy \in 0..MaxShift : poly2 = Shifted(poly1, dx, dy)
    /\ pts = <<>>
    /\ overlap_area = None
    /\ raised = "none"
    /\ pcOverlap = "call"

IdleOvl ==
    /\ poly1 = <<>>
    /\ poly2 = <<>>
    /\ pts = <<>>
    /\ overlap_area = None
    /\ raised = "none"
    /\ pcOverlap = "idle"

notOvl == <<asmVars, groVars, ndxVars, isectVars, areaVars, hbVars, waxsVars, tiltVars, lfVars, pdbVars, eclVars, p2pVars, cfgVars, rdfVars, scVars, rgVars, calVars>>

CallOverlap ==
    /\ pcOverlap = "call"
    /\ \E yes \in SUBSET BoundaryQueries(poly1, poly2) :
          LET points == overlap_pts(poly1, poly2, yes)
              err == overlapRaises(poly1, poly2, yes)
          IN  /\ pts' = points
              /\ raised' = err
              /\ IF err = "none"
                 THEN \E first \in HullVertices(Range(points)) \cup {Origin} :
                         /\ first = Origin => HullVertices(Range(points)) = {}
                         /\ overlap_area' = overlap(points, first)
                 ELSE overlap_area' = None
    /\ pcOverlap' = "done"
    /\ UNCHANGED <<poly1, poly2, notOvl>>

NextOvl == CallOverlap

\* C8: overlap of a hexagon with itself, its corners listed clockwise or
\* counterclockwise, is the area of the hexagon, and no error is raised.
C8_SameHexagon ==
    (pcOverlap = "done" /\ poly1 = poly2) =>
        /\ raised = "none"
        /\ overlap_area = Shoelace(Column(poly1, 1), Column(poly1, 2))

\* C9: overlap returns 0 and raises nothing whenever the collected points
\* hold fewer than three distinct points, as they do for rings further
\* apart than their circumscribed diameter.
C9_FewPointsZero ==
    (pcOverlap = "done" /\ raised # "IndexError" /\ Cardinality(Range(pts)) < 3) =>
        /\ raised = "none"
        /\ overlap_area = Num(0)

-----------------------------------------------------------------------------
(* Hydrogen-bond multiplicity: src/Ben_Manuscripts/transport/figures/multi_hbonds.py

   The cached analysis object (sys.hbonds, sys.number_residues) is made
   outside this repository; a frame enters the model as numbers, the list
   line 40 builds from it: one residue number for every hydrogen bond. *)

nsolutes == 24

solutes == <<"GCL", "PG", "GLY", "TET", "RIB">>

MaxFrames == 2      \* frames of a cached trajectory, 0..MaxFrames
MaxHb == 5          \* hydrogen bonds of one frame, 0..MaxHb

\* the frames of the model: the bonds of the first and of the last tracked
\* residue, those of the first residue listed first (the order of the
\* bonds makes no difference to lines 41-46)
Frames ==
    {[j \in 1..(n0 + n1) |-> IF j <= n0 THEN 0 ELSE nsolutes - 1] :
        n0 \in 0..MaxHb, n1 \in 0..MaxHb}

\* a frame with a bond of a residue number past the tracked residues
FramesPast == {<<0, nsolutes>>}

\* nhbonds[k] of line 42 raises IndexError for k outside -nsolutes..nsolutes-1
NoIndex(k) == k >= nsolutes \/ k < 0 - nsolutes

CountBondsRaises(nums) == \E j \in 1..Len(nums) : NoIndex(nums[j])

\* lines 41-42, up to the first k that raises; a negative k counts from the
\* end of the array
RECURSIVE CountBonds(_, _, _)
CountBonds(nh, nums, j) ==
    IF j > Len(nums) \/ NoIndex(nums[j]) THEN nh
    ELSE CountBonds([nh EXCEPT ![(nums[j] + nsolutes) % nsolutes] = @ + 1], nums, j + 1)

\* np.count_nonzero(nhbonds == m), lines 43-46
Tally(nh, m) == Cardinality({k \in DOMAIN nh : nh[k] = m})

\* a loop body that leaves the accumulator as it is
ResetSkipped(nh) == nh

\* line 48: nhbonds -= nhbonds
Reset(nh) == [k \in DOMAIN nh |-> nh[k] - nh[k]]

\* line 28, and the state before the loop of line 29
InitHb ==
    /\ nhbonds = [k \in 0..(nsolutes - 1) |-> 0]
    /\ hbSolute = 0
    /\ hbFrame = 0
    /\ n_frames = 0
    /\ numbers = <<>>
    /\ single = 0
    /\ double = 0
    /\ triple = 0
    /\ quadruple = 0
    /\ pcHb = "solute"

IdleHb ==
    /\ nhbonds = <<>>
    /\ hbSolute = 0
    /\ hbFrame = 0
    /\ n_frames = 0
    /\ numbers = <<>>
    /\ single = 0
    /\ double = 0
    /\ triple = 0
    /\ quadruple = 0
    /\ pcHb = "idle"

notHb == <<asmVars, groVars, ndxVars, isectVars, ovlVars, areaVars, waxsVars, tiltVars, lfVars, pdbVars, eclVars, p2pVars, cfgVars, rdfVars, scVars, rgVars, calVars>>

\* lines 29-38: the next solute, its sums at zero, its cached object loaded
HbSolute ==
    /\ pcHb = "solute"
    /\ hbSolute < Len(solutes)
    /\ hbSolute' = hbSolute + 1
    /\ single' = 0
    /\ double' = 0
    /\ triple' = 0
    /\ quadruple' = 0
    /\ n_frames' \in 0..MaxFrames
    /\ hbFrame' = 0
    /\ pcHb' = "frame"
    /\ UNCHANGED <<nhbonds, numbers, notHb>>

\* lines 39-48: one frame
HbFrame ==
    /\ pcHb = "frame"
    /\ hbFrame < n_frames
    /\ numbers' \in {q \in Frames : Len(q) <= MaxHb} \cup FramesPast
    /\ LET counted == CountBonds(nhbonds, numbers', 1)
       IN  IF CountBondsRaises(numbers')
           THEN /\ nhbonds' = counted
                /\ pcHb' = "IndexError"
                /\ UNCHANGED <<single, double, triple, quadruple, hbFrame>>
           ELSE /\ single' = single + Tally(counted, 1)
                /\ double' = double + Tally(counted, 2)
                /\ triple' = triple + Tally(counted, 3)
                /\ quadruple' = quadruple + Tally(counted, 4)
                /\ nhbonds' = Reset(counted)
                /\ hbFrame' = hbFrame + 1
                /\ pcHb' = pcHb
    /\ UNCHANGED <<hbSolute, n_frames, notHb>>

\* lines 50-53: the sums become the means, floats; with a trajectory of no
\* frame the first division raises
HbMeans ==
    /\ pcHb = "frame"
    /\ hbFrame = n_frames
    /\ IF n_frames = 0
       THEN /\ pcHb' = "ZeroDivisionError"
            /\ UNCHANGED <<single, double, triple, quadruple>>
       ELSE /\ single' = Frac(single, n_frames)
            /\ double' = Frac(double, n_frames)
            /\ triple' = Frac(triple, n_frames)
            /\ quadruple' = Frac(quadruple, n_frames)
            /\ pcHb' = IF hbSolute = Len(solutes) THEN "done" ELSE "solute"
    /\ UNCHANGED <<nhbonds, hbSolute, hbFrame, n_frames, numbers, notHb>>

NextHb == HbSolute \/ HbFrame \/ HbMeans

\* the residues that take part in exactly m hydrogen bonds of the frame
ResiduesWith(nums, m) ==
    {r \in 0..(nsolutes - 1) : Cardinality({j \in 1..Len(nums) : nums[j] = r}) = m}

\* C11: in every frame of every solute the sums single, double, triple and
\* quadruple grow by the number of residues in exactly 1, 2, 3 and 4
\* hydrogen bonds of that frame (a residue in 5 or more adds to none), and
\* the accumulator is all zeros when a frame starts, also the first frame
\* of a later solute.
C11_Buckets ==
    [][(pcHb = "frame" /\ hbFrame' = hbFrame + 1) =>
          /\ \A k \in 0..(nsolutes - 1) : nhbonds[k] = 0
          /\ single' = single + Cardinality(ResiduesWith(numbers', 1))
          /\ double' = double + Cardinality(ResiduesWith(numbers', 2))
          /\ triple' = triple + Cardinality(ResiduesWith(numbers', 3))
          /\ quadruple' = quadruple + Cardinality(ResiduesWith(numbers', 4))]_vars

\* the second frame of the second solute, after a frame with a residue in
\* two bonds: one residue in five bonds, one in one
C11_Witness ==
    /\ pcHb = "frame"
    /\ hbSolute = 2
    /\ hbFrame = 2
    /\ ResiduesWith(numbers, 5) # {}
    /\ single = 0
    /\ double = 1
    /\ quadruple = 0
    /\ \A k \in 0..(nsolutes - 1) : nhbonds[k] = 0

-----------------------------------------------------------------------------
(* WAXS despeckling and normalization: src/HII/Scripts/WAXS.py lines 31-38

   The image is a sequence of rows of floats; the model's images are small
   squares, the 23 iterations are those of the script. *)

despeckle_iterations == 23

MaxSide == 5        \* the model's images have MaxSide x MaxSide pixels

Pixels(img) == {<<x, y>> : x \in 1..Len(img), y \in 1..Len(img)}

\* np.amax(waxs): nan if a pixel is nan
Amax(img) ==
    IF \E p \in Pixels(img) : IsNan(img[p[1]][p[2]]) THEN Nan
    ELSE LET p == CHOOSE p \in Pixels(img) :
                     \A q \in Pixels(img) : ~FGt(img[q[1]][q[2]], img[p[1]][p[2]])
         IN  img[p[1]][p[2]]

\* lines 33-34: np.where(waxs == m)[0][0], [1][0], the first pixel in row
\* order that holds m
FirstAt(img, m) ==
    CHOOSE p \in Pixels(img) :
        /\ FEq(img[p[1]][p[2]], m)
        /\ \A q \in Pixels(img) :
              FEq(img[q[1]][q[2]], m) => (q[1] > p[1] \/ (q[1] = p[1] /\ q[2] >= p[2]))

\* lines 31-35
RECURSIVE Despeckle(_, _)
Despeckle(img, n) ==
    IF n = 0 THEN img
    ELSE LET p == FirstAt(img, Amax(img))
         IN  Despeckle([img EXCEPT ![p[1]][p[2]] = Num(0)], n - 1)

\* a normalization by the first pixel of the image
NormalizedByFirst(img) ==
    [x \in 1..Len(img) |-> [y \in 1..Len(img) |-> FDiv(img[x][y], img[1][1])]]

\* line 38: waxs /= np.amax(waxs)
Normalized(img) ==
    [x \in 1..Len(img) |-> [y \in 1..Len(img) |-> FDiv(img[x][y], Amax(img))]]

\* the model's images: in row order c2 pixels of value 2, c1 of value 1 and
\* the rest of value rest, or the same from the last pixel backwards
Image(c2, c1, rest, backwards) ==
    [x \in 1..MaxSide |-> [y \in 1..MaxSide |->
        LET at == (x - 1) * MaxSide + y
            k == IF backwards THEN MaxSide * MaxSide + 1 - at ELSE at
        IN  Num(IF k <= c2 THEN 2 ELSE IF k <= c2 + c1 THEN 1 ELSE rest)]]

InitWaxs ==
    /\ \E c2 \in 0..(MaxSide * MaxSide), rest \in {0 - 1, 0}, backwards \in BOOLEAN :
          \E c1 \in 0..(MaxSide * MaxSide - c2) :
              /\ raw = Image(c2, c1, rest, backwards)
              /\ waxs = raw
    /\ pcWaxs = "despeckle"

IdleWaxs ==
    /\ raw = <<>>
    /\ waxs = <<>>
    /\ pcWaxs = "idle"

notWaxs == <<asmVars, groVars, ndxVars, isectVars, ovlVars, areaVars, hbVars, tiltVars, lfVars, pdbVars, eclVars, p2pVars, cfgVars, rdfVars, scVars, rgVars, calVars>>

WaxsDespeckle ==
    /\ pcWaxs = "despeckle"
    /\ waxs' = Despeckle(waxs, despeckle_iterations)
    /\ pcWaxs' = "normalize"
    /\ UNCHANGED <<raw, notWaxs>>

WaxsNormalize ==
    /\ pcWaxs = "normalize"
    /\ waxs' = Normalized(waxs)
    /\ pcWaxs' = "done"
    /\ UNCHANGED <<raw, notWaxs>>

NextWaxs == WaxsDespeckle \/ WaxsNormalize

Positive(img) == {p \in Pixels(img) : FGt(img[p[1]][p[2]], Num(0))}

\* C12 as stated: for every image, the maximum of the processed image is
\* exactly 1.0 after the 23 despeckle iterations and the division.
C12_MaxIsOne ==
    pcWaxs = "done" => Amax(waxs) = Num(1)

\* C12 amended: the maximum of the processed image is exactly 1.0 for
\* every image that holds more than 23 positive pixels.
C12_MaxIsOneIfPositiveLeft ==
    (pcWaxs = "done" /\ Cardinality(Positive(raw)) > despeckle_iterations)
        => Amax(waxs) = Num(1)

\* 23 pixels zeroed, a brightest pixel of 2 and a pixel of 1 left
C12_Witness ==
    /\ pcWaxs = "done"
    /\ Cardinality(Positive(raw)) > despeckle_iterations
    /\ Amax(raw) = Num(2)
    /\ \E p \in Pixels(waxs) : waxs[p[1]][p[2]] = Frac(1, 2)
    /\ Amax(waxs) = Num(1)

-----------------------------------------------------------------------------
(* Chain tilt angle: src/Scripts/tilt.py lines 61-87

   Coordinates are integers.  A sine enters arcsin by its square, which is
   a fraction for these coordinates.  An angle is kept exactly: <<q, T>> is
   q degrees plus c * arcsin(sqrt(s)) * (180/pi) for every <<s, c>> of T.
   The sines whose square is 0, 1/4, 1/2, 3/4 or 1 have angles of whole
   degrees, which go to q; every other arcsine stays a term of T. *)

Degrees(q) == <<q, {}>>

\* the coefficient of arcsin(sqrt(s)) in the angle x
Coef(x, s) ==
    IF \E t \in x[2] : t[1] = s THEN (CHOOSE t \in x[2] : t[1] = s)[2] ELSE Num(0)

\* x + y; nan takes everything
AAdd(x, y) ==
    IF IsNan(FAdd(x[1], y[1])) THEN Degrees(Nan)
    ELSE <<FAdd(x[1], y[1]),
           {<<s, FAdd(Coef(x, s), Coef(y, s))>> :
               s \in {u \in {t[1] : t \in x[2] \cup y[2]} :
                         FAdd(Coef(x, u), Coef(y, u)) # Num(0)}}>>

\* x / n for an integer n # 0
ADiv(x, n) ==
    IF IsNan(x[1]) THEN Degrees(Nan)
    ELSE <<FDiv(x[1], Num(n)), {<<t[1], FDiv(t[2], Num(n))>> : t \in x[2]}>>

\* np.arccos(s) * (180 / np.pi), s given by its square
ArccosDegrees(sinsq) ==
    IF IsNan(sinsq) THEN Degrees(Nan)
    ELSE IF sinsq = Num(0) THEN Degrees(Num(90))
    ELSE IF sinsq = Frac(1, 4) THEN Degrees(Num(60))
    ELSE IF sinsq = Frac(1, 2) THEN Degrees(Num(45))
    ELSE IF sinsq = Frac(3, 4) THEN Degrees(Num(30))
    ELSE IF sinsq = Num(1) THEN Degrees(Num(0))
    ELSE <<Num(90), {<<sinsq, Num(0 - 1)>>}>>

\* line 83: np.arcsin(s) * (180 / np.pi), s given by its square; the sine
\* of a bond of length 0 is 0/0, nan
ArcsinDegrees(sinsq) ==
    IF IsNan(sinsq) THEN Degrees(Nan)
    ELSE IF sinsq = Num(0) THEN Degrees(Num(0))
    ELSE IF sinsq = Frac(1, 4) THEN Degrees(Num(30))
    ELSE IF sinsq = Frac(1, 2) THEN Degrees(Num(45))
    ELSE IF sinsq = Frac(3, 4) THEN Degrees(Num(60))
    ELSE IF sinsq = Num(1) THEN Degrees(Num(90))
    ELSE <<Num(0), {<<sinsq, Num(1)>>}>>

Dot3(u, w3) == u[1] * w3[1] + u[2] * w3[2] + u[3] * w3[3]

\* line 61: the default of the parameter normal; both calls of angles
\* (lines 117 and 119) leave it at that.  With this normal nn of line 81 is
\* 1 and vn of line 80 the height of the bond, both without rounding, so the
\* quotient of line 83 is 1 for a vertical bond and below 1 for any other;
\* for another normal the rounding of the two norms can take the quotient of
\* a parallel bond past 1, where np.arcsin is nan
normal == <<0, 0, 0 - 1>>

\* lines 79-83: the angle of the bond from atom k+1 to atom k of a chain
BondTilt(p, q) ==
    LET bond == <<p[1] - q[1], p[2] - q[2], p[3] - q[3]>>
        vn == Abs(Dot3(bond, normal))
    IN  ArcsinDegrees(Frac(vn * vn, Dot3(normal, normal) * Dot3(bond, bond)))

RECURSIVE TiltSum(_, _, _, _)
TiltSum(frame, j, atoms, k) ==
    IF k >= atoms - 1 THEN Degrees(Num(0))
    ELSE AAdd(BondTilt(frame[j * atoms + k + 1], frame[j * atoms + k + 2]),
              TiltSum(frame, j, atoms, k + 1))

\* lines 61-87 where line 84 divides by a number other than 0: w[i][j] of
\* frame i and chain j, both from 1
angles(positions, atoms) ==
    [i \in 1..Len(positions) |->
        [j \in 1..(Len(positions[i]) \div atoms) |->
            ADiv(TiltSum(positions[i], j - 1, atoms, 0), atoms - 1)]]

\* pos.shape[1]; a position array without frames has no atoms in the model
natoms(positions) == IF positions = <<>> THEN 0 ELSE Len(positions[1])

\* the exception angles ends in, None if it returns: line 73 divides by
\* atoms, np.zeros of line 74 refuses a negative number of chains, and line
\* 84 divides by atoms - 1 for the first chain of the first frame
anglesRaises(positions, atoms) ==
    IF atoms = 0 THEN <<"ZeroDivisionError">>
    ELSE IF atoms < 0 /\ natoms(positions) > 0 THEN <<"ValueError">>
    ELSE IF atoms = 1 /\ positions # <<>> /\ natoms(positions) > 0
    THEN <<"ZeroDivisionError">>
    ELSE None

MaxTail == 3        \* atoms of a chain, 1..MaxTail

\* the bond vectors of the model's chains
BondVectors ==
    {<<0, 0, 1>>, <<0, 0, 0 - 2>>, <<1, 0, 0>>, <<0 - 1, 2, 0>>, <<0, 1, 1>>, <<0, 0, 0>>,
     <<1, 1, 1>>}

\* the atoms of a chain that starts at p and goes on by the bonds
RECURSIVE ChainAtoms(_, _)
ChainAtoms(p, bonds) ==
    IF bonds = <<>> THEN <<p>>
    ELSE <<p>> \o ChainAtoms(<<p[1] - Head(bonds)[1], p[2] - Head(bonds)[2],
                                p[3] - Head(bonds)[3]>>, Tail(bonds))

\* no frame, or one frame of no, one or two chains
InitTilt ==
    /\ tiltAtoms \in 0..MaxTail
    /\ \E first, second \in [1..(tiltAtoms - 1) -> BondVectors], chains \in 0..2 :
          tiltPos \in {<<>>,
                       <<(IF chains >= 1 THEN ChainAtoms(<<0, 0, 0>>, first) ELSE <<>>)
                         \o (IF chains = 2 THEN ChainAtoms(<<3, 1, 4>>, second) ELSE <<>>)>>}
    /\ wTilt = <<>>
    /\ pcTilt = "call"

IdleTilt ==
    /\ tiltAtoms = 0
    /\ tiltPos = <<>>
    /\ wTilt = <<>>
    /\ pcTilt = "idle"

notTilt == <<asmVars, groVars, ndxVars, isectVars, ovlVars, areaVars, hbVars, waxsVars, lfVars, pdbVars, eclVars, p2pVars, cfgVars, rdfVars, scVars, rgVars, calVars>>

\* angles(pos, atoms) with the default normal
CallAngles ==
    /\ pcTilt = "call"
    /\ IF anglesRaises(tiltPos, tiltAtoms) # None
       THEN /\ wTilt' = wTilt
            /\ pcTilt' = anglesRaises(tiltPos, tiltAtoms)[1]
       ELSE /\ wTilt' = angles(tiltPos, tiltAtoms)
            /\ pcTilt' = "done"
    /\ UNCHANGED <<tiltAtoms, tiltPos, notTilt>>

NextTilt == CallAngles

\* the bonds of chain j of the frame, as differences of atoms
ChainBonds(frame, j, atoms) ==
    {<<frame[(j - 1) * atoms + k][1] - frame[(j - 1) * atoms + k + 1][1],
       frame[(j - 1) * atoms + k][2] - frame[(j - 1) * atoms + k + 1][2],
       frame[(j - 1) * atoms + k][3] - frame[(j - 1) * atoms + k + 1][3]>> :
        k \in 1..(atoms - 1)}

\* the angle between a bond and the xy plane: none for a bond of length 0,
\* 90 for a vertical one, 0 for a horizontal one, 45 where the height equals
\* the horizontal length, the arcsine of height over length otherwise
PlaneAngle(bond) ==
    IF bond = <<0, 0, 0>> THEN Degrees(Nan)
    ELSE IF bond[1] = 0 /\ bond[2] = 0 THEN Degrees(Num(90))
    ELSE IF bond[3] = 0 THEN Degrees(Num(0))
    ELSE IF bond[3] * bond[3] = bond[1] * bond[1] + bond[2] * bond[2] THEN Degrees(Num(45))
    ELSE <<Num(0), {<<Frac(bond[3] * bond[3], Dot3(bond, bond)), Num(1)>>}>>

RECURSIVE PlaneAngleSum(_, _, _, _)
PlaneAngleSum(frame, j, atoms, k) ==
    IF k > atoms - 1 THEN Degrees(Num(0))
    ELSE AAdd(PlaneAngle(<<frame[(j - 1) * atoms + k][1] - frame[(j - 1) * atoms + k + 1][1],
                           frame[(j - 1) * atoms + k][2] - frame[(j - 1) * atoms + k + 1][2],
                           frame[(j - 1) * atoms + k][3] - frame[(j - 1) * atoms + k + 1][3]>>),
              PlaneAngleSum(frame, j, atoms, k + 1))

\* C13: a chain whose bonds are all parallel to the normal (0,0,-1) gets
\* 90 degrees, a chain whose bonds are all perpendicular to it gets 0, and
\* the value of a chain is the mean over its atoms-1 bonds.
C13_Tilt ==
    pcTilt = "done" =>
        \A i \in 1..Len(wTilt) : \A j \in 1..Len(wTilt[i]) :
            LET bonds == ChainBonds(tiltPos[i], j, tiltAtoms)
            IN  /\ (\A b \in bonds : b[1] = 0 /\ b[2] = 0 /\ b[3] # 0) => wTilt[i][j] = Degrees(Num(90))
                /\ (\A b \in bonds : b[3] = 0 /\ b # <<0, 0, 0>>) => wTilt[i][j] = Degrees(Num(0))
                /\ wTilt[i][j] = ADiv(PlaneAngleSum(tiltPos[i], j, tiltAtoms, 1), tiltAtoms - 1)

\* two chains of three atoms: one parallel to the normal, one with a
\* parallel and a perpendicular bond
C13_Witness ==
    /\ pcTilt = "done"
    /\ tiltAtoms = 3
    /\ Len(wTilt) = 1
    /\ Len(wTilt[1]) = 2
    /\ wTilt[1][1] = Degrees(Num(90))
    /\ wTilt[1][2] = Degrees(Num(45))
    /\ <<1, 0, 0>> \in ChainBonds(tiltPos[1], 2, 3)

-----------------------------------------------------------------------------
(* last_frame: src/llclib/file_rw.py lines 370-390 *)

\* str.endswith
endswith(s, suffix) ==
    /\ Len(s) >= Len(suffix)
    /\ SubSeq(s, Len(s) - Len(suffix) + 1, Len(s)) = suffix

DotTrr == <<".", "t", "r", "r">>
DotXtc == <<".", "x", "t", "c">>
DotGro == <<".", "g", "r", "o">>

\* the names of the model's trajectory files
TrajectoryNames ==
    {<<"a">> \o DotTrr, <<"a">> \o DotXtc, <<"a">> \o DotGro, DotTrr, <<"t", "r", "r">>,
     <<>>, <<"a">> \o DotXtc \o DotGro, <<"a", ".", "T", "R", "R">>, <<"a", ".", "t", "r">>}

MaxLfFrames == 2    \* frames of the trajectory file, 1..MaxLfFrames

\* t.xyz of the file md.load would read: frames of one atom
InitLf ==
    /\ trr \in TrajectoryNames
    /\ \E n \in 1..MaxLfFrames :
          lfXyz \in [1..n -> {<<<<0, 0, 0>>>>, <<<<1, 2, 3>>>>, <<<<0 - 1, 0, 5>>>>}]
    /\ lfLoaded = FALSE
    /\ lfPrinted = <<>>
    /\ lfLast = <<>>
    /\ lfRaised = "none"
    /\ pcLf = "call"

IdleLf ==
    /\ trr = <<>>
    /\ lfXyz = <<>>
    /\ lfLoaded = FALSE
    /\ lfPrinted = <<>>
    /\ lfLast = <<>>
    /\ lfRaised = "none"
    /\ pcLf = "idle"

notLf == <<asmVars, groVars, ndxVars, isectVars, ovlVars, areaVars, hbVars, waxsVars, tiltVars, pdbVars, eclVars, p2pVars, cfgVars, rdfVars, scVars, rgVars, calVars>>

\* lines 372-390: in the else branch last is never bound, so the return of
\* line 390 raises UnboundLocalError
CallLastFrame ==
    /\ pcLf = "call"
    /\ IF endswith(trr, DotTrr) \/ endswith(trr, DotXtc)
       THEN /\ lfLoaded' = TRUE
            /\ lfLast' = lfXyz[Len(lfXyz)]
            /\ lfPrinted' = lfPrinted
            /\ lfRaised' = "none"
            /\ pcLf' = "returned"
       ELSE /\ lfLoaded' = FALSE
            /\ lfLast' = lfLast
            /\ lfPrinted' = <<"Incompatible Filetype">>
            /\ lfRaised' = "UnboundLocalError"
            /\ pcLf' = "raised"
    /\ UNCHANGED <<trr, lfXyz, notLf>>

NextLf == CallLastFrame

\* C14: for a name that ends in neither .trr nor .xtc, last_frame prints
\* the incompatible-filetype message and returns to its caller with no
\* position array, without loading a file.
C14_PrintsAndReturns ==
    (pcLf # "call" /\ ~endswith(trr, DotTrr) /\ ~endswith(trr, DotXtc)) =>
        /\ lfPrinted = <<"Incompatible Filetype">>
        /\ ~lfLoaded
        /\ pcLf = "returned"
        /\ lfLast = <<>>

-----------------------------------------------------------------------------
(* read_pdb_coords: src/llclib/file_rw.py lines 16-40 *)

ATOM == <<"A", "T", "O", "M">>

\* str.count('ATOM'): the occurrences of the marker in one line (the marker
\* cannot overlap itself)
CountATOM(line) ==
    Cardinality({p \in 1..(Len(line) - 3) : SubSeq(line, p, p + 3) = ATOM})

\* lines 23-25: the counts of all lines added up
RECURSIVE SumATOM(_)
SumATOM(lines) ==
    IF lines = <<>> THEN 0 ELSE CountATOM(Head(lines)) + SumATOM(Tail(lines))

\* lines 27-32: lines with no marker are counted until a line holds the
\* marker exactly once; a line holding it more than once neither counts nor
\* stops the loop
RECURSIVE HeaderLines(_)
HeaderLines(lines) ==
    IF lines = <<>> \/ CountATOM(Head(lines)) = 1 THEN 0
    ELSE (IF CountATOM(Head(lines)) = 0 THEN 1 ELSE 0) + HeaderLines(Tail(lines))

\* line 38: the three floats read from a line
PdbCoordsOk(line) ==
    /\ FloatOk(PySlice(line, 26, 38))
    /\ FloatOk(PySlice(line, 38, 46))
    /\ FloatOk(PySlice(line, 46, 54))

PdbCoords(line) ==
    <<PyFloat(PySlice(line, 26, 38)), PyFloat(PySlice(line, 38, 46)),
      PyFloat(PySlice(line, 46, 54))>>

\* line 39
PdbName(line) == Strip(PySlice(line, 12, 16))

\* a record with the columns of a coordinate line: record type, serial, atom
\* name in [12:16), x in [26:38), y in [38:46), z in [46:54)
PdbRecord(rec, name, x) ==
    LJust(rec, 6) \o FmtD(1, 5) \o <<" ">> \o LJust(name, 4) \o Spaces(10)
      \o RJust(x, 12) \o RJust(<<"2", ".", "5", "0", "0">>, 8)
      \o RJust(<<"-", "0", ".", "1", "2", "5">>, 8) \o <<"\n">>

OneThousandth == <<"1", ".", "0", "0", "1">>

\* the lines of the model's files
PdbLines ==
    {<<"R", "E", "M", "A", "R", "K", "\n">>,
     <<"R", "E", "M", "A", "R", "K", " ">> \o ATOM \o <<"S", "\n">>,
     <<"T", "E", "R", "\n">>,
     PdbRecord(ATOM, <<"C", "1">>, OneThousandth),
     PdbRecord(<<"H", "E", "T">> \o ATOM, <<"O">>, <<"-", "3", ".", "2">>),
     PdbRecord(ATOM, ATOM, OneThousandth),
     PdbRecord(<<"S", "I", "G">> \o <<"A", "T", "M">>, <<"C", "1">>, <<"0", ".", "0", "1">>),
     PdbRecord(ATOM, <<"C", "2">>, <<"2", "e", "3", "0", "8">>)}

MaxPdbLines == 3    \* lines of a file, 0..MaxPdbLines

InitPdb ==
    /\ \E n \in 0..MaxPdbLines : pdbFile \in [1..n -> PdbLines]
    /\ pdbXyz = <<>>
    /\ pdbIdentity = <<>>
    /\ pdbNoAtoms = 0
    /\ pdbLinesOfText = 0
    /\ pcPdb = "call"

IdlePdb ==
    /\ pdbFile = <<>>
    /\ pdbXyz = <<>>
    /\ pdbIdentity = <<>>
    /\ pdbNoAtoms = 0
    /\ pdbLinesOfText = 0
    /\ pcPdb = "idle"

notPdb == <<asmVars, groVars, ndxVars, isectVars, ovlVars, areaVars, hbVars, waxsVars, tiltVars, lfVars, eclVars, p2pVars, cfgVars, rdfVars, scVars, rgVars, calVars>>

\* lines 16-40.  The loop of lines 37-39 reads the no_atoms lines that follow
\* the header one after the other: the first that is past the end of the file
\* raises IndexError, the first whose columns hold no number ValueError
read_pdb_coords ==
    /\ pcPdb = "call"
    /\ LET no_atoms == SumATOM(pdbFile)
           header == HeaderLines(pdbFile)
           rows == 1..no_atoms
           bad == {j \in rows : \/ header + j > Len(pdbFile)
                                \/ ~PdbCoordsOk(pdbFile[header + j])}
           firstBad == CHOOSE j \in bad : \A h \in bad : j <= h
       IN  /\ pdbNoAtoms' = no_atoms
           /\ pdbLinesOfText' = header
           /\ IF bad = {}
              THEN /\ pdbXyz' = [j \in rows |-> PdbCoords(pdbFile[header + j])]
                   /\ pdbIdentity' = [j \in rows |-> PdbName(pdbFile[header + j])]
                   /\ pcPdb' = "returned"
              ELSE /\ pdbXyz' = <<>>
                   /\ pdbIdentity' = <<>>
                   /\ pcPdb' = IF header + firstBad > Len(pdbFile)
                                THEN "IndexError" ELSE "ValueError"
    /\ UNCHANGED <<pdbFile, notPdb>>

NextPdb == read_pdb_coords

\* the lines of the file that contain the marker, 1-based
MarkerLines == {j \in 1..Len(pdbFile) : Contains(pdbFile[j], ATOM)}

\* the lines that precede the first line with the marker
LinesBeforeMarker ==
    Cardinality({j \in 1..Len(pdbFile) : \A h \in MarkerLines : j < h})

\* C15: for every input stream, the no_atoms that read_pdb_coords returns is
\* the number of lines that contain the marker ATOM and its lines_of_text is
\* the number of lines before the first such line; an input with no ATOM line
\* returns zero atoms and raises no error.
C15_CountsMarkerLines ==
    /\ pcPdb = "returned" =>
          /\ pdbNoAtoms = Cardinality(MarkerLines)
          /\ pdbLinesOfText = LinesBeforeMarker
    /\ (pcPdb # "call" /\ MarkerLines = {}) =>
          (pcPdb = "returned" /\ pdbNoAtoms = 0)

-----------------------------------------------------------------------------
(* pbz and overlap_pairs: src/Scripts/eclipse.py lines 183-241.  The script
   is Python 2: / of two ints is the floor division. *)

ZeroCentre == <<0, 0, 0>>

\* np.linalg.norm(box[t, 2, :]) for a box vector of integers whose length
\* is an integer, as a vector along z is
NormZ(vec) ==
    CHOOSE n \in 0..(Abs(vec[1]) + Abs(vec[2]) + Abs(vec[3])) :
        n * n = vec[1] * vec[1] + vec[2] * vec[2] + vec[3] * vec[3]

\* line 196: the pores argument plays no part
posppore(npos) == npos \div 4

\* the (p, j, i) of the loops of lines 201-204
PbzLoop(npos, npores) ==
    {pji \in (0..(npores - 1)) \X (0..2) \X (0..(posppore(npos) - 1)) : TRUE}

\* line 204: the slot written and the centre read at (p, j, i)
PbzSlot(npos, pji) ==
    pji[1] * posppore(npos) * 3 + pji[2] * posppore(npos) + pji[3]
PbzSource(npos, pji) == pji[1] * posppore(npos) + pji[3]

\* an index past the end of newpos or of pos
pbzRaises(npos, npores) ==
    \E pji \in PbzLoop(npos, npores) :
        PbzSlot(npos, pji) >= 3 * npos \/ PbzSource(npos, pji) >= npos

\* how often each of the 3*npos slots is assigned
PbzWrites(npos, npores) ==
    [s \in 1..(3 * npos) |->
        Cardinality({pji \in PbzLoop(npos, npores) : PbzSlot(npos, pji) = s - 1})]

\* lines 198-204 for one frame: np.zeros, then the assignments; z = [-1, 0, 1]
pbzFrame(frame, boxz, npores) ==
    LET npos == Len(frame)
        zbox == NormZ(boxz)
        hits(s) == {pji \in PbzLoop(npos, npores) : PbzSlot(npos, pji) = s - 1}
        value(pji) ==
            LET c == frame[PbzSource(npos, pji) + 1]
            IN  <<c[1], c[2], c[3] + (pji[2] - 1) * zbox>>
    IN  [s \in 1..(3 * npos) |->
            IF hits(s) = {} THEN ZeroCentre ELSE value(CHOOSE pji \in hits(s) : TRUE)]

pbz(positions, boxes, npores) ==
    [t \in 1..Len(positions) |-> pbzFrame(positions[t], boxes[t], npores)]

\* the square of np.linalg.norm(c1 - c2): the nearest centre is the one of
\* the least square
Dist2(c1, c2) ==
    (c1[1] - c2[1]) * (c1[1] - c2[1]) + (c1[2] - c2[2]) * (c1[2] - c2[2])
      + (c1[3] - c2[3]) * (c1[3] - c2[3])

\* np.argmin: the first index (0-based) of the least entry
ArgMin(d) ==
    (CHOOSE j \in 1..Len(d) :
        /\ \A h \in 1..Len(d) : d[j] <= d[h]
        /\ \A h \in 1..(j - 1) : d[h] > d[j]) - 1

\* centers[t, c, :] for an index c that may be negative (numpy counts a
\* negative index from the end)
CentreAt(frame, c) == IF c < 0 THEN frame[c + Len(frame) + 1] ELSE frame[c + 1]

\* lines 219-222
real_rings == Len(centers[1]) \div 3
real_rings_ppore == real_rings \div pores
ring_per_layer == real_rings_ppore \div layers

\* lines 229-232 for ring i of a frame
Distances(frame, i) ==
    LET sh == i % ring_per_layer
    IN  [j \in 1..(ring_per_layer * layersearch) |->
            Dist2(CentreAt(frame, i), CentreAt(frame, i - sh - (j - 1) - 1))]

\* line 234
RawPair(frame, i) ==
    i - (i % ring_per_layer) - real_rings - ArgMin(Distances(frame, i)) - 1

WrapNever(rp) == rp

\* lines 236-237
Wrap(rp) == IF rp < 0 THEN rp + real_rings ELSE rp

MaxPos == 8         \* ring centres of a frame given to pbz, 1..MaxPos
MaxT == 2           \* frames of a trajectory given to pbz, 1..MaxT
MaxRings == 5       \* real rings of a periodic array given to overlap_pairs

PbzPores == {1, 2, 4, 8}
PairPores == {1, 2}
LayerCounts == {1, 2}
Searches == {1, 2}
BoxLengths == {3, 5}

\* the centres of frame t: ring r (0-based) lies at (r + 1, t, 10 (r + 1))
RingFrame(npos, t) == [r \in 1..npos |-> <<r, t, 10 * r>>]

\* periodic arrays of 3 n centres on the z axis, at height 0 or 1 in the
\* first 2 n slots (the slots overlap_pairs reads)
AxisFrames(n) ==
    {[s \in 1..(3 * n) |-> <<0, 0, IF s <= 2 * n THEN zs[s] ELSE 0>>] :
        zs \in [1..(2 * n) -> {0, 1}]}

\* either a trajectory of ring centres that goes through pbz and then
\* overlap_pairs, as in the script, or a periodic array handed to overlap_pairs
InitEcl ==
    /\ layers \in LayerCounts
    /\ layersearch \in Searches
    /\ \/ /\ eclMode = "pbz"
          /\ pores \in PbzPores
          /\ \E npos \in 1..MaxPos, nT \in 1..MaxT, len \in BoxLengths :
                /\ pbzPos = [t \in 1..nT |-> RingFrame(npos, t)]
                /\ pbzBox = [t \in 1..nT |-> <<0, 0, len>>]
          /\ centers = <<>>
          /\ pcEcl = "pbz"
       \/ /\ eclMode = "given"
          /\ pores \in PairPores
          /\ pbzPos = <<>>
          /\ pbzBox = <<>>
          /\ \E n \in 1..MaxRings : \E frame \in AxisFrames(n) : centers = <<frame>>
          /\ pcEcl = "pairs"
    /\ slotWrites = <<>>
    /\ pairsOut = <<>>
    /\ frameP = 0
    /\ ringP = 0
    /\ rawPair = 0

IdleEcl ==
    /\ eclMode = "idle"
    /\ pores = 0
    /\ layers = 0
    /\ layersearch = 0
    /\ pbzPos = <<>>
    /\ pbzBox = <<>>
    /\ centers = <<>>
    /\ slotWrites = <<>>
    /\ pairsOut = <<>>
    /\ frameP = 0
    /\ ringP = 0
    /\ rawPair = 0
    /\ pcEcl = "idle"

notEcl == <<asmVars, groVars, ndxVars, isectVars, ovlVars, areaVars, hbVars, waxsVars, tiltVars, lfVars, pdbVars, p2pVars, cfgVars, rdfVars, scVars, rgVars, calVars>>

\* lines 183-206
CallPbz ==
    /\ pcEcl = "pbz"
    /\ IF pbzRaises(Len(pbzPos[1]), pores)
       THEN /\ pcEcl' = "IndexError"
            /\ UNCHANGED <<centers, slotWrites>>
       ELSE /\ centers' = pbz(pbzPos, pbzBox, pores)
            /\ slotWrites' = PbzWrites(Len(pbzPos[1]), pores)
            /\ pcEcl' = "pairs"
    /\ UNCHANGED <<eclMode, pores, layers, layersearch, pbzPos, pbzBox, pairsOut,
                   frameP, ringP, rawPair, notEcl>>

\* lines 218-224: pairs = np.zeros([nT, real_rings], dtype=int)
StartPairs ==
    /\ pcEcl = "pairs"
    /\ pairsOut' = [t \in 1..Len(centers) |-> [r \in 1..real_rings |-> 0]]
    /\ frameP' = 0
    /\ ringP' = 0
    /\ pcEcl' = "loop"
    /\ UNCHANGED <<eclMode, pores, layers, layersearch, pbzPos, pbzBox, centers,
                   slotWrites, rawPair, notEcl>>

\* the rings the loops of lines 227-228 visit in one frame: the ranges of
\* the pores follow one another from real_rings on
Visited == pores * real_rings_ppore

\* lines 228-239: one pass of the loop over i, for ring real_rings + ringP of
\* frame frameP
PairRing ==
    /\ pcEcl = "loop"
    /\ frameP < Len(centers)
    /\ Visited > 0
    /\ IF ring_per_layer = 0
       THEN /\ pcEcl' = "ZeroDivisionError"
            /\ UNCHANGED <<pairsOut, frameP, ringP, rawPair>>
       ELSE LET i == real_rings + ringP
                rp == RawPair(centers[frameP + 1], i)
            IN  /\ rawPair' = rp
                /\ pairsOut' = [pairsOut EXCEPT ![frameP + 1][ringP + 1] = Wrap(rp)]
                /\ IF ringP + 1 = Visited
                   THEN frameP' = frameP + 1 /\ ringP' = 0
                   ELSE frameP' = frameP /\ ringP' = ringP + 1
                /\ pcEcl' = "loop"
    /\ UNCHANGED <<eclMode, pores, layers, layersearch, pbzPos, pbzBox, centers,
                   slotWrites, notEcl>>

\* line 241
ReturnPairs ==
    /\ pcEcl = "loop"
    /\ frameP = Len(centers) \/ Visited = 0
    /\ pcEcl' = "returned"
    /\ UNCHANGED <<eclMode, pores, layers, layersearch, pbzPos, pbzBox, centers,
                   slotWrites, pairsOut, frameP, ringP, rawPair, notEcl>>

NextEcl == CallPbz \/ StartPairs \/ PairRing \/ ReturnPairs

\* the entries of pairs that the loops have assigned so far (0-based t, r)
Paired(t, r) ==
    /\ pcEcl \in {"loop", "returned"}
    /\ t < frameP \/ (t = frameP /\ r < ringP)

PairedEntries ==
    IF pcEcl \in {"loop", "returned"}
    THEN {tr \in (0..(Len(pairsOut) - 1)) \X (0..(real_rings - 1)) : Paired(tr[1], tr[2])}
    ELSE {}

\* the entry of the last pass of the loop
LastPaired ==
    IF ringP > 0 THEN <<frameP, ringP - 1>> ELSE <<frameP - 1, Visited - 1>>

\* C16: overlap_pairs applied to the output of pbz: the centre it uses for
\* real ring r, at index real_rings + r of the periodic array, is the
\* unshifted centre of ring r, for every r in 0..real_rings-1.
C16_RealRingsUnshifted ==
    (eclMode = "pbz" /\ pcEcl \in {"loop", "returned"}) =>
        \A t \in 1..Len(centers) : \A r \in 0..(real_rings - 1) :
            CentreAt(centers[t], real_rings + r) = pbzPos[t][r + 1]

\* C17: every ring index stored in pairs[t, r] belongs to the pore of r:
\* floor(pair / rings_per_pore) = floor(r / rings_per_pore), also for the
\* rings of the lowest layer of a pore.
C17_SamePore ==
    \A tr \in PairedEntries :
        pairsOut[tr[1] + 1][tr[2] + 1] \div real_rings_ppore = tr[2] \div real_rings_ppore

\* C18 as stated: with ring_per_layer * layersearch <= real_rings every value
\* stored in pairs[t, r] is in 0..real_rings-1 and differs from r, a negative
\* intermediate index being wrapped by adding real_rings once.
C18_ValidAndOther ==
    (PairedEntries # {} /\ ring_per_layer * layersearch <= real_rings) =>
        /\ \A tr \in PairedEntries :
              /\ pairsOut[tr[1] + 1][tr[2] + 1] \in 0..(real_rings - 1)
              /\ pairsOut[tr[1] + 1][tr[2] + 1] # tr[2]
        /\ pairsOut[LastPaired[1] + 1][LastPaired[2] + 1] =
              IF rawPair < 0 THEN rawPair + real_rings ELSE rawPair

\* the rings fill the pores and layers evenly
EvenLayers == real_rings = pores * layers * ring_per_layer

\* C18: with ring_per_layer * layersearch <= real_rings every value stored in
\* pairs[t, r] is in 0..real_rings-1, a negative intermediate index being
\* wrapped by adding real_rings once; the value differs from r where the
\* rings fill the layers evenly and ring_per_layer * layersearch < real_rings.
C18_ValidIndex ==
    (PairedEntries # {} /\ ring_per_layer * layersearch <= real_rings) =>
        /\ \A tr \in PairedEntries :
              /\ pairsOut[tr[1] + 1][tr[2] + 1] \in 0..(real_rings - 1)
              /\ (EvenLayers /\ ring_per_layer * layersearch < real_rings) =>
                    pairsOut[tr[1] + 1][tr[2] + 1] # tr[2]
        /\ pairsOut[LastPaired[1] + 1][LastPaired[2] + 1] =
              IF rawPair < 0 THEN rawPair + real_rings ELSE rawPair

\* a pass has wrapped a negative index, under both conditions of C18
C18_Witness ==
    /\ PairedEntries # {}
    /\ rawPair < 0
    /\ EvenLayers
    /\ ring_per_layer * layersearch < real_rings
    /\ layersearch > 1

\* C19: for a pores value that divides npos, pbz writes every one of the
\* 3 npos slots exactly once, and the slots of pore p are contiguous: that
\* pore's npos/pores centres shifted by -1, then 0, then +1 box lengths in z.
C19_PoreBlocks ==
    (eclMode = "pbz" /\ pcEcl # "pbz" /\ Len(pbzPos[1]) % pores = 0) =>
        LET npos == Len(pbzPos[1])
            q == npos \div pores
        IN  /\ pcEcl # "IndexError"
            /\ \A s \in 1..(3 * npos) : slotWrites[s] = 1
            /\ \A t \in 1..Len(pbzPos) : \A p \in 0..(pores - 1) :
                  \A j \in 0..2 : \A i \in 0..(q - 1) :
                      centers[t][p * 3 * q + j * q + i + 1] =
                          <<pbzPos[t][p * q + i + 1][1], pbzPos[t][p * q + i + 1][2],
                            pbzPos[t][p * q + i + 1][3] + (j - 1) * NormZ(pbzBox[t])>>

-----------------------------------------------------------------------------
(* p2p_stats: src/Scripts/Structure_char.py lines 76-132.  The script is
   Python 2: / of two ints is the floor division. *)

\* lines 83-88: the five series that are kept, in their order
Kept(series, exclude) ==
    LET idx == {i \in 1..6 : i - 1 # exclude}
        nth(k) == CHOOSE i \in idx : Cardinality({h \in idx : h < i}) = k - 1
    IN  [k \in 1..5 |-> series[nth(k)]]

BlockShifted(series, lo, hi) == PySlice(series, lo + 1, hi + 1)

\* p2ps[i, lo:hi] for 0 <= lo <= hi
Block(series, lo, hi) == PySlice(series, lo, hi)

\* line 108
ind_trajectories == (Len(p2pSeries[1]) - equilT) \div tauInt

\* line 109
total_trajectories == ind_trajectories * 5

\* the values of the pooled array, and the sums of k of them drawn with
\* replacement (lines 122-125)
PoolValues == {trajectories[c][r] : c \in 1..Len(trajectories), r \in 1..tauInt}

RECURSIVE DrawSums(_)
DrawSums(k) ==
    IF k = 0 THEN {0} ELSE {s + x : s \in DrawSums(k - 1), x \in PoolValues}

MaxP2pFrames == 6   \* frames of the distance series, 1..MaxP2pFrames
MaxTau == 3         \* the autocorrelation time, 0..MaxTau

\* series i (0-based) holds 10 i + f at frame f
DistanceSeries(frames) == [i \in 1..6 |-> [fr \in 1..frames |-> 10 * (i - 1) + (fr - 1)]]

MaxBootFrames == 2  \* frames of a series that is given two trials

\* the numbers of bootstrap trials the model gives a series: none or one,
\* two for the short series and three for the shortest
BootTrials(frames) ==
    IF frames = 1 THEN 0..3 ELSE IF frames <= MaxBootFrames THEN 0..2 ELSE 0..1

\* the excluded index, the equilibration frame (given, or as found by
\* detectEquilibration) and the integer part of the largest autocorrelation
\* time (found by integratedAutocorrelationTime) are inputs
InitP2p ==
    /\ \E frames \in 1..MaxP2pFrames :
          /\ p2psIn = DistanceSeries(frames)
          /\ equilT \in 0..(frames + 1)
          /\ nbootArg \in BootTrials(frames)
    /\ excludeArg \in 0..6
    /\ tauInt \in 0..MaxTau
    /\ p2pSeries = <<>>
    /\ trajectories = <<>>
    /\ colWrites = <<>>
    /\ fillI = 0
    /\ fillJ = 0
    /\ draws = 0
    /\ p2pAvg = None
    /\ p2pStd = None
    /\ pcP2p = "call"

IdleP2p ==
    /\ p2psIn = <<>>
    /\ equilT = 0
    /\ excludeArg = 0
    /\ nbootArg = 0
    /\ tauInt = 0
    /\ p2pSeries = <<>>
    /\ trajectories = <<>>
    /\ colWrites = <<>>
    /\ fillI = 0
    /\ fillJ = 0
    /\ draws = 0
    /\ p2pAvg = None
    /\ p2pStd = None
    /\ pcP2p = "idle"

notP2p == <<asmVars, groVars, ndxVars, isectVars, ovlVars, areaVars, hbVars, waxsVars, tiltVars, lfVars, pdbVars, eclVars, cfgVars, rdfVars, scVars, rgVars, calVars>>

\* lines 78-106: an exclude outside 0..5 drops no series, and the sixth
\* goes past the end of p2p_new
P2pSelect ==
    /\ pcP2p = "call"
    /\ IF excludeArg \in 0..5
       THEN /\ p2pSeries' = Kept(p2psIn, excludeArg)
            /\ pcP2p' = "partition"
       ELSE /\ p2pSeries' = p2pSeries
            /\ pcP2p' = "IndexError"
    /\ UNCHANGED <<p2psIn, equilT, excludeArg, nbootArg, tauInt, trajectories,
                   colWrites, fillI, fillJ, draws, p2pAvg, p2pStd, notP2p>>

P2pPartitionGuarded ==
    /\ pcP2p = "partition"
    /\ IF tauInt = 0
       THEN /\ pcP2p' = "returned"
            /\ UNCHANGED <<trajectories, colWrites>>
       ELSE IF total_trajectories < 0
       THEN /\ pcP2p' = "ValueError"
            /\ UNCHANGED <<trajectories, colWrites>>
       ELSE /\ trajectories' = [c \in 1..total_trajectories |-> [r \in 1..tauInt |-> 0]]
            /\ colWrites' = [c \in 1..total_trajectories |-> 0]
            /\ pcP2p' = "fill"
    /\ fillI' = 0
    /\ fillJ' = 0
    /\ UNCHANGED <<p2psIn, equilT, excludeArg, nbootArg, tauInt, p2pSeries, draws,
                   p2pAvg, p2pStd, notP2p>>

\* lines 108-110: np.zeros refuses a negative number of columns
P2pPartition ==
    /\ pcP2p = "partition"
    /\ IF tauInt = 0
       THEN /\ pcP2p' = "ZeroDivisionError"
            /\ UNCHANGED <<trajectories, colWrites>>
       ELSE IF total_trajectories < 0
       THEN /\ pcP2p' = "ValueError"
            /\ UNCHANGED <<trajectories, colWrites>>
       ELSE /\ trajectories' = [c \in 1..total_trajectories |-> [r \in 1..tauInt |-> 0]]
            /\ colWrites' = [c \in 1..total_trajectories |-> 0]
            /\ pcP2p' = "fill"
    /\ fillI' = 0
    /\ fillJ' = 0
    /\ UNCHANGED <<p2psIn, equilT, excludeArg, nbootArg, tauInt, p2pSeries, draws,
                   p2pAvg, p2pStd, notP2p>>

\* line 115: one pass of the loops over i and j
P2pFill ==
    /\ pcP2p = "fill"
    /\ fillI < 5
    /\ ind_trajectories > 0
    /\ LET col == fillI * ind_trajectories + fillJ
       IN  /\ trajectories' =
                [trajectories EXCEPT ![col + 1] =
                    Block(p2pSeries[fillI + 1], equilT + fillJ * tauInt,
                          equilT + (fillJ + 1) * tauInt)]
           /\ colWrites' = [colWrites EXCEPT ![col + 1] = @ + 1]
    /\ IF fillJ + 1 = ind_trajectories
       THEN fillI' = fillI + 1 /\ fillJ' = 0
       ELSE fillI' = fillI /\ fillJ' = fillJ + 1
    /\ UNCHANGED <<p2psIn, equilT, excludeArg, nbootArg, tauInt, p2pSeries, draws,
                   p2pAvg, p2pStd, pcP2p, notP2p>>

\* the whole part of the square root of n >= 0
RECURSIVE ISqrt(_)
ISqrt(n) ==
    IF n < 2 THEN n
    ELSE LET r == 2 * ISqrt(n \div 4)
         IN  IF (r + 1) * (r + 1) <= n THEN r + 1 ELSE r

\* the largest k with k * k dividing n, n > 0
SquarePart(n) ==
    LET ks == {k \in 1..ISqrt(n) : n % (k * k) = 0}
    IN  CHOOSE k \in ks : \A h \in ks : h <= k

\* the square root of a fraction x >= 0 as <<c, r>>, the number c sqrt(r)
\* for a fraction c and a whole r not divisible by a square; r = 1 for a
\* root that is a fraction, nan, or inf
Root(x) ==
    IF ~IsFinite(x) \/ x[1] = 0 THEN <<x, 1>>
    ELSE LET up == SquarePart(x[1])
             down == SquarePart(x[2])
             rest == x[2] \div (down * down)
         IN  <<Frac(up, down * rest), (x[1] \div (up * up)) * rest>>

RECURSIVE FSum(_)
FSum(xs) == IF xs = <<>> THEN Num(0) ELSE FAdd(Head(xs), FSum(Tail(xs)))

\* line 130: np.mean; of no value it is nan
BootMean(boot) == FDiv(FSum(boot), Num(Len(boot)))

\* line 131: np.std, the root of the mean squared distance to the mean
BootStd(boot) ==
    LET mean == BootMean(boot)
    IN  Root(FDiv(FSum([k \in 1..Len(boot) |->
                           FMul(FSub(boot[k], mean), FSub(boot[k], mean))]),
                  Num(Len(boot))))

\* lines 118-132: nboot trials of tau draws of a column and a row each, the
\* mean and the standard deviation of the trial averages.  np.zeros refuses
\* a negative nboot and randrange(0, 0) raises ValueError; the mean and the
\* deviation of no trial are nan
P2pBootstrap ==
    /\ pcP2p = "fill"
    /\ fillI = 5 \/ ind_trajectories = 0
    /\ IF nbootArg < 0 \/ (nbootArg > 0 /\ total_trajectories = 0)
       THEN /\ draws' = 0
            /\ p2pAvg' = p2pAvg
            /\ p2pStd' = p2pStd
            /\ pcP2p' = "ValueError"
       ELSE /\ draws' = nbootArg * 2 * tauInt
            /\ \E sums \in [1..nbootArg -> DrawSums(tauInt)] :
                  LET p2p_boot == [i \in 1..Len(sums) |-> Frac(sums[i], tauInt)]
                  IN  /\ p2pAvg' = BootMean(p2p_boot)
                      /\ p2pStd' = BootStd(p2p_boot)
            /\ pcP2p' = "returned"
    /\ UNCHANGED <<p2psIn, equilT, excludeArg, nbootArg, tauInt, p2pSeries,
                   trajectories, colWrites, fillI, fillJ, notP2p>>

NextP2p == P2pSelect \/ P2pPartition \/ P2pFill \/ P2pBootstrap

\* the frames of block j, 0-based
BlockFrames(j) == (equilT + j * tauInt)..(equilT + (j + 1) * tauInt - 1)

\* C20: with equilibration frame t and spacing tau >= 1 the blocks
\* [t + j tau, t + (j+1) tau), j < n = floor((frames - t)/tau), are pairwise
\* disjoint and lie inside [t, frames); each of the 5 n columns of the pooled
\* array is filled exactly once, column i n + j holding block j of series i;
\* the frames before t and the last (frames - t) mod tau frames enter no block.
C20_Blocks ==
    (pcP2p \in {"fill", "returned"} /\ (fillI = 5 \/ ind_trajectories = 0)) =>
        LET frames == Len(p2pSeries[1])
            n == ind_trajectories
            inBlocks == UNION {BlockFrames(j) : j \in 0..(n - 1)}
        IN  /\ \A j \in 0..(n - 1) : \A h \in 0..(n - 1) :
                  j # h => BlockFrames(j) \cap BlockFrames(h) = {}
            /\ inBlocks \subseteq equilT..(frames - 1)
            /\ Len(trajectories) = 5 * n
            /\ \A c \in 1..(5 * n) : colWrites[c] = 1
            /\ \A i \in 0..4 : \A j \in 0..(n - 1) :
                  trajectories[i * n + j + 1] =
                      [r \in 1..tauInt |-> p2pSeries[i + 1][equilT + j * tauInt + r]]
            /\ \A fr \in 0..(frames - 1) :
                  (fr < equilT \/ fr >= frames - ((frames - equilT) % tauInt)) =>
                      fr \notin inBlocks

\* all columns are filled, of at least two blocks, with frames left out at
\* both ends
C20_Witness ==
    /\ pcP2p = "fill"
    /\ fillI = 5
    /\ ind_trajectories >= 2
    /\ tauInt >= 2
    /\ equilT > 0
    /\ (Len(p2pSeries[1]) - equilT) % tauInt > 0

\* C21: when the largest autocorrelation time truncates to 0, p2p_stats ends
\* in a division-by-zero error at the computation of ind_trajectories,
\* before any bootstrap draw and without a mean or standard deviation.
C21_ZeroTauRaises ==
    (tauInt = 0 /\ pcP2p \notin {"idle", "call", "partition", "IndexError"}) =>
        /\ pcP2p = "ZeroDivisionError"
        /\ draws = 0
        /\ p2pAvg = None
        /\ p2pStd = None
        /\ trajectories = <<>>

C21_Witness ==
    /\ pcP2p = "ZeroDivisionError"
    /\ tauInt = 0
    /\ nbootArg > 0
    /\ Len(p2pSeries) = 5

-----------------------------------------------------------------------------
(* write_initial_config: src/llclib/file_rw.py lines 257-367.  A record of
   the file is kept as its first four fields, written out, and the terms of
   its position: the angle of the rotation about z, the column of positions
   that is rotated, the shift in the plane and the height. *)

\* sines and cosines of 30 and 60 degrees as <<h, r>>, the number
\* (h + r sqrt(3)) / 2; the last bit of the float is not modelled
SinDeg(d) == CASE d = 30 -> <<1, 0>> [] d = 60 -> <<0, 1>>
CosDeg(d) == CASE d = 30 -> <<0, 1>> [] d = 60 -> <<1, 0>>
NegRoot(x) == <<0 - x[1], 0 - x[2]>>

\* lines 286-303: b and c of pore l; theta = 30
MainOffset(l) ==
    IF l = 0 THEN <<<<0, 0>>, <<0, 0>>>>
    ELSE IF l = 1 THEN <<<<0 - 2, 0>>, <<0, 0>>>>
    ELSE IF l = 2 THEN <<NegRoot(SinDeg(30)), NegRoot(CosDeg(30))>>
    ELSE <<CosDeg(90 - 30), NegRoot(SinDeg(90 - 30))>>

\* lines 332-343
IonOffset(l) ==
    IF l = 0 THEN <<<<0, 0>>, <<0, 0>>>>
    ELSE IF l = 1 THEN <<<<0 - 2, 0>>, <<0, 0>>>>
    ELSE IF l = 2 THEN <<CosDeg(90 - 30), NegRoot(SinDeg(90 - 30))>>
    ELSE <<NegRoot(SinDeg(30)), NegRoot(CosDeg(30))>>

\* [b*p2p, c*p2p]
PlaneShift(bc, p2p) == <<<<bc[1][1] * p2p, bc[1][2] * p2p>>, <<bc[2][1] * p2p, bc[2][2] * p2p>>>>

\* lines 309-311: theta as a fraction of pi; rot is given in degrees
\* (line 265)
MainTheta(j, k, m, rot, offset) ==
    LET th == FAdd(Frac(2 * j, m), Frac(rot, 180))
    IN  IF offset THEN FAdd(th, FMul(Num(k % 2), Frac(1, m))) ELSE th

\* lines 347-349: rot plays no part
IonTheta(j, k, m, rot, offset) ==
    LET th == Frac(2 * j, m)
    IN  IF offset THEN FAdd(th, FMul(Num(k % 2), Frac(1, m))) ELSE th

\* lines 315 and 318: the z term
Height(k, j, m, dist, helix) ==
    IF helix THEN FAdd(Num(k * dist), FMul(Frac(dist, m), Num(j))) ELSE Num(k * dist)

\* '{:5d}{:5s}{:>5s}{:5d}' of lines 320 and 362
RecordHead(res, resname, atomname, atom_count) ==
    FmtD(res, 5) \o FmtS(resname, 5) \o FmtSR(atomname, 5)
      \o FmtD(atom_count - (atom_count \div 100000) * 100000, 5)

\* the arguments
no_layers == cfgArgs.no_layers
layer_distribution == cfgArgs.layer_distribution
no_pores == cfgArgs.no_pores
no_ions == cfgArgs.no_ions

\* identity: the names of the atoms of a monomer, the ions last
CfgIdentity(n, ions) ==
    [i \in 1..n |-> IF i > n - ions THEN <<"N", "A">> ELSE <<"C">> \o NatStr(i)]

\* the columns of positions and of the flipped variant
CfgPositions(n) == [i \in 1..n |-> <<i, 0, 1>>]
CfgFlipped(n) == [i \in 1..n |-> <<i, 0, 0 - 1>>]

\* layer_mons of layer k of pore l
LayerMons(l, k) == layer_distribution[l * no_layers + k + 1]

\* the layers of pore l that the loop over k passes before
\* layer_distribution runs out
LayersDone(l) == Min2(no_layers, Max2(0, Len(layer_distribution) - l * no_layers))

\* the monomers of layers 0..k-1 of pore l
RECURSIVE MonsBefore(_, _)
MonsBefore(l, k) == IF k = 0 THEN 0 ELSE MonsBefore(l, k - 1) + LayerMons(l, k - 1)

\* lines 305-322 for layer k of pore l: monomer j, atom i
MainLayer(l, k, arr, mc, ac) ==
    LET m == LayerMons(l, k)
        body == Len(arr) - no_ions
        rec(j, i) ==
            [head |-> RecordHead(mc + j + 1, ResA, CfgIdentity(Len(arr), no_ions)[i + 1],
                                 ac + j * body + i),
             theta |-> MainTheta(j, k, m, cfgArgs.rot, cfgArgs.offset),
             col |-> arr[i + 1],
             shift |-> PlaneShift(MainOffset(l), cfgArgs.p2p),
             z |-> Height(k, j, m, cfgArgs.dist, cfgArgs.helix)]
    IN  IF body <= 0 THEN <<>>
        ELSE [q \in 1..(m * body) |-> rec((q - 1) \div body, (q - 1) % body)]

IonResiduePerMonomer(mc, j, i) == mc + j + 1

\* line 353: monomer_count += 1 for every ion
IonResidue(mc, j, i) == mc + j * no_ions + i + 1

\* lines 344-364 for layer k of pore l: monomer j, ion i
IonLayer(l, k, arr, mc, ac) ==
    LET m == LayerMons(l, k)
        n == Len(arr)
        rec(j, i) ==
            [head |-> RecordHead(IonResidue(mc, j, i),
                                 CfgIdentity(n, no_ions)[n - (i + 1) + 1],
                                 CfgIdentity(n, no_ions)[n - (i + 1) + 1],
                                 ac + j * no_ions + i),
             theta |-> IonTheta(j, k, m, cfgArgs.rot, cfgArgs.offset),
             col |-> arr[n - (i + 1) + 1],
             shift |-> PlaneShift(IonOffset(l), cfgArgs.p2p),
             z |-> Height(k, j, m, cfgArgs.dist, cfgArgs.helix)]
    IN  IF no_ions = 0 THEN <<>>
        ELSE [q \in 1..(m * no_ions) |-> rec((q - 1) \div no_ions, (q - 1) % no_ions)]

\* the records of layers k.. of pore l in the main section
RECURSIVE MainLayers(_, _, _, _, _)
MainLayers(l, k, arr, mc, ac) ==
    IF k >= LayersDone(l) THEN <<>>
    ELSE MainLayer(l, k, arr, mc, ac)
           \o MainLayers(l, k + 1, arr, mc + LayerMons(l, k),
                         ac + LayerMons(l, k) * Max2(0, Len(arr) - no_ions))

RECURSIVE IonLayers(_, _, _, _, _)
IonLayers(l, k, arr, mc, ac) ==
    IF k >= LayersDone(l) THEN <<>>
    ELSE IonLayer(l, k, arr, mc, ac)
           \o IonLayers(l, k + 1, arr, mc + LayerMons(l, k) * no_ions,
                        ac + LayerMons(l, k) * no_ions)

\* lines 286-303: positions[:, :] = flipped or unflipped at the head of pore l
PoreArray(l) ==
    IF ~cfgFlip THEN cfgPositions
    ELSE IF l = 1 \/ l = 3 THEN cfgFlipped
    ELSE IF l = 2 THEN cfgUnflipped
    ELSE cfgPositions

MaxCfgAtoms == 3    \* atoms of a monomer, ions included, 1..MaxCfgAtoms
CfgLayerCounts == {1, 2}    \* layers of a pore
CfgLayerMons == {1, 2}      \* monomers of a layer

\* a uniform or alternating distribution of len layers
Distribution(m1, m2, len) == [q \in 1..len |-> IF q % 2 = 1 THEN m1 ELSE m2]

InitCfg ==
    /\ \E n \in 1..MaxCfgAtoms :
          /\ cfgPositions = CfgPositions(n)
          /\ \E fl \in BOOLEAN :
                /\ cfgFlip = fl
                /\ cfgFlipped = IF fl THEN CfgFlipped(n) ELSE <<>>
          /\ \E ions \in 0..n, npor \in 1..4, nl \in CfgLayerCounts,
                m1 \in CfgLayerMons, m2 \in CfgLayerMons, extra \in {0 - 1, 0, 1},
                rot \in {0, 90}, offset \in BOOLEAN, helix \in BOOLEAN :
                cfgArgs = [no_layers |-> nl, no_pores |-> npor, no_ions |-> ions,
                           layer_distribution |-> Distribution(m1, m2, npor * nl + extra),
                           dist |-> 4, p2p |-> 10, rot |-> rot, offset |-> offset,
                           helix |-> helix]
    /\ cfgUnflipped = <<>>
    /\ cfgLines = <<>>
    /\ cfgRecords = <<>>
    /\ cfgAtomCount = 0
    /\ cfgMonomerCount = 0
    /\ cfgPore = 0
    /\ pcCfg = "call"

IdleCfg ==
    /\ cfgPositions = <<>>
    /\ cfgFlip = FALSE
    /\ cfgFlipped = <<>>
    /\ cfgArgs = <<>>
    /\ cfgUnflipped = <<>>
    /\ cfgLines = <<>>
    /\ cfgRecords = <<>>
    /\ cfgAtomCount = 0
    /\ cfgMonomerCount = 0
    /\ cfgPore = 0
    /\ pcCfg = "idle"

notCfg == <<asmVars, groVars, ndxVars, isectVars, ovlVars, areaVars, hbVars, waxsVars, tiltVars, lfVars, pdbVars, eclVars, p2pVars, rdfVars, scVars, rgVars, calVars>>

\* sum(layer_distribution)
RECURSIVE SumSeq(_)
SumSeq(q) == IF q = <<>> THEN 0 ELSE Head(q) + SumSeq(Tail(q))

\* lines 260-283: the title, the number of atoms, the copy of positions
CfgOpen ==
    /\ pcCfg = "call"
    /\ cfgLines' = <<TitleLine,
                     IntStr(SumSeq(layer_distribution) * Len(cfgPositions)) \o <<"\n">>>>
    /\ cfgUnflipped' = IF cfgFlip THEN cfgPositions ELSE <<>>
    /\ cfgAtomCount' = 1
    /\ cfgMonomerCount' = 0
    /\ cfgPore' = 0
    /\ pcCfg' = "main"
    /\ UNCHANGED <<cfgPositions, cfgFlip, cfgFlipped, cfgArgs, cfgRecords, notCfg>>

\* lines 284-322 for pore cfgPore: a layer past the end of
\* layer_distribution raises IndexError
CfgMainPore ==
    /\ pcCfg = "main"
    /\ cfgPore < no_pores
    /\ LET l == cfgPore
           arr == PoreArray(l)
           body == Max2(0, Len(arr) - no_ions)
           mons == MonsBefore(l, LayersDone(l))
       IN  /\ cfgPositions' = arr
           /\ cfgRecords' = cfgRecords \o MainLayers(l, 0, arr, cfgMonomerCount, cfgAtomCount)
           /\ cfgMonomerCount' = cfgMonomerCount + mons
           /\ cfgAtomCount' = cfgAtomCount + mons * body
           /\ IF LayersDone(l) < no_layers
              THEN pcCfg' = "IndexError" /\ cfgPore' = cfgPore
              ELSE IF l + 1 = no_pores
              THEN pcCfg' = "ions" /\ cfgPore' = 0
              ELSE pcCfg' = "main" /\ cfgPore' = l + 1
    /\ UNCHANGED <<cfgFlip, cfgFlipped, cfgArgs, cfgUnflipped, cfgLines, notCfg>>

\* lines 328-364 for pore cfgPore
CfgIonPore ==
    /\ pcCfg = "ions"
    /\ cfgPore < no_pores
    /\ LET l == cfgPore
           mons == MonsBefore(l, LayersDone(l))
       IN  /\ cfgRecords' = cfgRecords
                 \o IonLayers(l, 0, cfgPositions, cfgMonomerCount, cfgAtomCount)
           /\ cfgMonomerCount' = cfgMonomerCount + mons * no_ions
           /\ cfgAtomCount' = cfgAtomCount + mons * no_ions
           /\ IF l + 1 = no_pores
              THEN pcCfg' = "close" /\ cfgPore' = 0
              ELSE pcCfg' = "ions" /\ cfgPore' = l + 1
    /\ UNCHANGED <<cfgPositions, cfgFlip, cfgFlipped, cfgArgs, cfgUnflipped, cfgLines,
                   notCfg>>

ZeroBoxLine ==
    <<" ", " ", " ", "0", ".", "0", "0", "0", "0", "0", " ", " ", " ", "0", ".", "0",
      "0", "0", "0", "0", " ", " ", "0", ".", "0", "0", "0", "0", "0", "\n">>

\* lines 366-367
CfgClose ==
    /\ pcCfg = "close"
    /\ cfgLines' = Append(cfgLines, ZeroBoxLine)
    /\ pcCfg' = "returned"
    /\ UNCHANGED <<cfgPositions, cfgFlip, cfgFlipped, cfgArgs, cfgUnflipped, cfgRecords,
                   cfgAtomCount, cfgMonomerCount, cfgPore, notCfg>>

NextCfg == CfgOpen \/ CfgMainPore \/ CfgIonPore \/ CfgClose

\* the monomer slots (pore, layer, monomer) written, the atoms of a monomer
\* in the main section, and the records of slot s (1-based) in each section
CfgSlots == SumSeq(SubSeq(layer_distribution, 1, no_pores * no_layers))
CfgBody == Len(cfgPositions) - no_ions
MainRecord(s, i) == cfgRecords[(s - 1) * CfgBody + i + 1]
IonRecord(s, i) == cfgRecords[CfgSlots * CfgBody + (s - 1) * no_ions + i + 1]

\* the call has returned, with a distribution of no_pores * no_layers
\* entries, and every monomer has atoms in both sections
CfgBothSections ==
    /\ pcCfg = "returned"
    /\ Len(layer_distribution) = no_pores * no_layers
    /\ CfgBody >= 1
    /\ no_ions >= 1

\* C22: for every monomer slot the ions of the trailing section are placed
\* with the same rotation angle (rot and the layer phase shift included) and
\* the same pore offset in the plane as the atoms of the main section, for
\* every pore 0..3.
C22_IonsPlacedAsAtoms ==
    CfgBothSections =>
        \A s \in 1..CfgSlots :
            /\ IonRecord(s, 0).theta = MainRecord(s, 0).theta
            /\ IonRecord(s, 0).shift = MainRecord(s, 0).shift

\* C26: with no_pores * no_layers entries in layer_distribution, the count
\* of line 2 is the number of atom records written, and the residue numbers
\* of the ion records go on one by one from the last monomer's.
C26_CountAndResidues ==
    (pcCfg = "returned" /\ Len(layer_distribution) = no_pores * no_layers) =>
        /\ cfgLines[2] = IntStr(Len(cfgRecords)) \o <<"\n">>
        /\ Len(cfgRecords) = CfgSlots * Len(cfgPositions)
        /\ \A q \in 1..(CfgSlots * no_ions) :
              SubSeq(cfgRecords[CfgSlots * CfgBody + q].head, 1, 5) = FmtD(CfgSlots + q, 5)
        /\ CfgBody >= 1 =>
              \A s \in 1..CfgSlots : SubSeq(MainRecord(s, 0).head, 1, 5) = FmtD(s, 5)

C26_Witness ==
    /\ CfgBothSections
    /\ no_ions >= 2
    /\ no_pores >= 2
    /\ CfgSlots >= 3

\* whether a column read is one of the flipped variant
FlippedColumn(c) == cfgFlip /\ c = cfgFlipped[c[1]]

\* C27: the positions array of the caller is unchanged on return, with or
\* without a flipped variant, and the ion section of every pore reads the
\* variant (flipped or unflipped) that the main section used for that pore.
C27_PositionsUnchanged ==
    /\ pcCfg = "returned" => cfgPositions = CfgPositions(Len(cfgPositions))
    /\ CfgBothSections =>
          \A s \in 1..CfgSlots :
              FlippedColumn(IonRecord(s, 0).col) <=> FlippedColumn(MainRecord(s, 0).col)

-----------------------------------------------------------------------------
(* totals.py: src/Ben_Manuscripts/transport/figures/totals.py.  System,
   save_object and load_object are not part of the sources at hand: an
   analysis object is a record of the fields the script reads, the cache a
   map from paths to objects, load_object raises FileNotFoundError for a
   path that is not there and save_object stores the object under its path. *)

recalculate == FALSE                    \* line 25
rdfResidues == <<"MET", "BUT">>            \* line 29
wt == 10                                \* line 30

\* line 35: the directory of residue r
DataPath(res) == <<"NaGA3C11", res, wt>>

\* '%s/rdf_%s.pl' % (path, res), lines 21 and 41
CachePath(path, res) == <<path, "rdf", res>>

\* the profiles an analysis can come to: the mean box height, the mean
\* density of each bin and the bin edges
Profiles ==
    {[zbox |-> 2, mean |-> <<1, 3>>, r |-> <<0, 1, 2>>],
     [zbox |-> 3, mean |-> <<2, 0>>, r |-> <<0, 2, 3>>]}

\* the objects System builds for a residue
Analyses(res) == {[res |-> res, profile |-> p] : p \in Profiles}

NoRdf == [res |-> "", profile |-> [zbox |-> 0, mean |-> <<>>, r |-> <<>>]]

\* file_rw.load_object
load_objectRaises(files, path) == path \notin DOMAIN files
load_object(files, path) == files[path]

\* file_rw.save_object
save_object(files, obj, path) ==
    [q \in (DOMAIN files) \cup {path} |-> IF q = path THEN obj ELSE files[q]]

\* lines 45-47: V in units of pi
Volumes(obj) ==
    LET p == obj.profile
    IN  [i \in 1..(Len(p.r) - 1) |->
            p.zbox * p.mean[i] * (p.r[i + 1] * p.r[i + 1] - p.r[i] * p.r[i])]

MaxRuns == 2        \* runs of the script over the same directory

\* the cache files that are there when the script starts
InitRdf ==
    /\ \E have \in SUBSET (1..Len(rdfResidues)) :
          \E objs \in [have -> Profiles] :
              rdfFiles = [q \in {CachePath(DataPath(rdfResidues[i]), rdfResidues[i]) : i \in have} |->
                            LET i == CHOOSE h \in have :
                                        q = CachePath(DataPath(rdfResidues[h]), rdfResidues[h])
                            IN  [res |-> rdfResidues[i], profile |-> objs[i]]]
    /\ rdfRun = 1
    /\ rdfI = 0
    /\ rdf = NoRdf
    /\ rdfCalls = [i \in 1..Len(rdfResidues) |-> 0]
    /\ rdfPlots = <<>>
    /\ pcRdf = "load"

IdleRdf ==
    /\ rdfFiles = <<>>
    /\ rdfRun = 0
    /\ rdfI = 0
    /\ rdf = NoRdf
    /\ rdfCalls = <<>>
    /\ rdfPlots = <<>>
    /\ pcRdf = "idle"

notRdf == <<asmVars, groVars, ndxVars, isectVars, ovlVars, areaVars, hbVars, waxsVars, tiltVars, lfVars, pdbVars, eclVars, p2pVars, cfgVars, scVars, rgVars, calVars>>

\* lines 33-43: the head of the loop for residue r = rdfResidues[rdfI]; with
\* recalculate, and when the cache file is missing, calculate_rdf is next
RdfLoad ==
    /\ pcRdf = "load"
    /\ rdfI < Len(rdfResidues)
    /\ LET r == rdfResidues[rdfI + 1]
           path == DataPath(r)
       IN  IF recalculate \/ load_objectRaises(rdfFiles, CachePath(path, r))
           THEN /\ rdf' = rdf
                /\ pcRdf' = "calculate"
           ELSE /\ rdf' = load_object(rdfFiles, CachePath(path, r))
                /\ pcRdf' = "use"
    /\ UNCHANGED <<rdfFiles, rdfRun, rdfI, rdfCalls, rdfPlots, notRdf>>

calculate_rdfUnsaved ==
    /\ pcRdf = "calculate"
    /\ \E obj \in Analyses(rdfResidues[rdfI + 1]) : rdf' = obj
    /\ rdfCalls' = [rdfCalls EXCEPT ![rdfI + 1] = @ + 1]
    /\ pcRdf' = "use"
    /\ UNCHANGED <<rdfFiles, rdfRun, rdfI, rdfPlots, notRdf>>

\* lines 9-23, called with res = r: System is built for the global r, the
\* object is saved under path and res, and returned
calculate_rdf ==
    /\ pcRdf = "calculate"
    /\ LET r == rdfResidues[rdfI + 1]
           res == r
           path == DataPath(r)
       IN  \E obj \in Analyses(r) :
              /\ rdfFiles' = save_object(rdfFiles, obj, CachePath(path, res))
              /\ rdf' = obj
    /\ rdfCalls' = [rdfCalls EXCEPT ![rdfI + 1] = @ + 1]
    /\ pcRdf' = "use"
    /\ UNCHANGED <<rdfRun, rdfI, rdfPlots, notRdf>>

\* lines 45-48
RdfPlot ==
    /\ pcRdf = "use"
    /\ rdfPlots' = Append(rdfPlots, Volumes(rdf))
    /\ rdfI' = rdfI + 1
    /\ pcRdf' = "load"
    /\ UNCHANGED <<rdfFiles, rdfRun, rdf, rdfCalls, notRdf>>

\* lines 50-55
RdfShow ==
    /\ pcRdf = "load"
    /\ rdfI = Len(rdfResidues)
    /\ pcRdf' = "shown"
    /\ UNCHANGED <<rdfFiles, rdfRun, rdfI, rdf, rdfCalls, rdfPlots, notRdf>>

\* the script is run again over the files the run before has left
RdfRunAgain ==
    /\ pcRdf = "shown"
    /\ rdfRun < MaxRuns
    /\ rdfRun' = rdfRun + 1
    /\ rdfI' = 0
    /\ rdf' = NoRdf
    /\ rdfCalls' = [i \in 1..Len(rdfResidues) |-> 0]
    /\ rdfPlots' = <<>>
    /\ pcRdf' = "load"
    /\ UNCHANGED <<rdfFiles, notRdf>>

NextRdf == RdfLoad \/ calculate_rdf \/ RdfPlot \/ RdfShow \/ RdfRunAgain

\* the cache file of the residue at hand
RdfPath == CachePath(DataPath(rdfResidues[rdfI + 1]), rdfResidues[rdfI + 1])

\* C23: with recalculate = False, for each residue in list order: a cache
\* file that exists is loaded and calculate_rdf is not called; for a missing
\* one calculate_rdf is called once and saves its result under the path the
\* loader reads before the result is used; a later run over the same
\* rdfResidues computes nothing.
C23_CacheProtocol ==
    /\ [][(pcRdf = "load" /\ rdfI < Len(rdfResidues) /\ RdfPath \in DOMAIN rdfFiles) =>
              (pcRdf' = "use" /\ rdf' = rdfFiles[RdfPath] /\ rdfCalls' = rdfCalls)]_vars
    /\ [][(pcRdf = "load" /\ rdfI < Len(rdfResidues) /\ RdfPath \notin DOMAIN rdfFiles) =>
              pcRdf' = "calculate"]_vars
    /\ [][pcRdf = "calculate" =>
              /\ pcRdf' = "use"
              /\ rdfCalls'[rdfI + 1] = 1
              /\ RdfPath \in DOMAIN rdfFiles'
              /\ rdfFiles'[RdfPath] = rdf']_vars
    /\ [](pcRdf = "use" => (RdfPath \in DOMAIN rdfFiles /\ rdfFiles[RdfPath] = rdf))
    /\ [](rdfRun >= 2 => \A i \in 1..Len(rdfCalls) : rdfCalls[i] = 0)
    /\ [](pcRdf = "shown" => \A i \in 1..Len(rdfPlots) :
              rdfPlots[i] = Volumes(rdfFiles[CachePath(DataPath(rdfResidues[i]), rdfResidues[i])]))

\* the first residue was loaded from its cache file, the second was computed
\* and saved and is about to be used
C23_Witness ==
    /\ pcRdf = "use"
    /\ rdfI = 1
    /\ rdfCalls = <<0, 1>>
    /\ CachePath(DataPath(rdfResidues[2]), rdfResidues[2]) \in DOMAIN rdfFiles

-----------------------------------------------------------------------------
(* Structure_char.py run as a script: src/Scripts/Structure_char.py lines
   134-185.  The calls the run makes are kept in order. *)

\* the file p2ps holds six series; exclude, nboot and equil come from the
\* command line, tau from the series
InitSc ==
    /\ \E frames \in 1..MaxP2pFrames : scFile = DistanceSeries(frames)
    /\ scCalls = <<>>
    /\ scPrinted = <<>>
    /\ pcSc = "start"

IdleSc ==
    /\ scFile = <<>>
    /\ scCalls = <<>>
    /\ scPrinted = <<>>
    /\ pcSc = "idle"

notSc == <<asmVars, groVars, ndxVars, isectVars, ovlVars, areaVars, hbVars, waxsVars, tiltVars, lfVars, pdbVars, eclVars, p2pVars, cfgVars, rdfVars, rgVars, calVars>>
notP2pSc == <<asmVars, groVars, ndxVars, isectVars, ovlVars, areaVars, hbVars, waxsVars, tiltVars, lfVars, pdbVars, eclVars, cfgVars, rdfVars, rgVars, calVars>>

\* lines 136-139: args = initialize(); p2ps = np.load('p2ps'); p2p_stats is
\* entered with the strings of the command line
ScLoad ==
    /\ pcSc = "start"
    /\ scCalls' = <<"initialize", "np.load", "p2p_stats">>
    /\ p2psIn' = scFile
    /\ equilT' \in 0..(Len(scFile[1]) - 1)
    /\ excludeArg' \in 0..6
    /\ nbootArg' \in BootTrials(Len(scFile[1]))
    /\ tauInt' \in 0..MaxTau
    /\ pcP2p' = "call"
    /\ pcSc' = "stats"
    /\ UNCHANGED <<p2pSeries, trajectories, colWrites, fillI, fillJ, draws, p2pAvg,
                   p2pStd, scFile, scPrinted, notP2pSc>>

\* line 140: print p2p_avg, p2p_std
ScPrint ==
    /\ pcSc = "stats"
    /\ pcP2p = "returned"
    /\ scCalls' = Append(scCalls, "print")
    /\ scPrinted' = <<p2pAvg, p2pStd>>
    /\ pcSc' = "printed"
    /\ UNCHANGED <<scFile, notSc>>

\* line 141: exit(); nothing of lines 142-185 is run
ScExit ==
    /\ pcSc = "printed"
    /\ scCalls' = Append(scCalls, "exit")
    /\ pcSc' = "exited"
    /\ UNCHANGED <<scFile, scPrinted, notSc>>

\* an exception of p2p_stats ends the run
ScRaise ==
    /\ pcSc = "stats"
    /\ pcP2p \in {"IndexError", "ZeroDivisionError", "ValueError"}
    /\ pcSc' = "raised"
    /\ UNCHANGED <<scFile, scCalls, scPrinted, notSc>>

\* the steps of p2p_stats are taken between ScLoad and ScPrint
NextSc ==
    \/ ScLoad \/ P2pSelect \/ P2pPartition \/ P2pFill \/ P2pBootstrap
    \/ ScPrint \/ ScExit \/ ScRaise

\* the calls made before the call of p2p_stats
CallsBeforeStats ==
    {scCalls[q] : q \in {h \in 1..Len(scCalls) :
        \E g \in (h + 1)..Len(scCalls) : scCalls[g] = "p2p_stats"}}

\* C24: in every run the pore centres are computed from the positions of the
\* tracking atoms (avg_pore_loc) and the six distances from those centres
\* (p2p) before p2p_stats is applied and the mean and the standard deviation
\* are printed.
C24_CentresThenDistances ==
    (pcSc \in {"stats", "printed", "exited", "raised"}) =>
        /\ "avg_pore_loc" \in CallsBeforeStats
        /\ "p2p" \in CallsBeforeStats

-----------------------------------------------------------------------------
(* read_gro_coords on any stream: src/llclib/file_rw.py lines 43-59 *)

\* an atom record with x as the text of its first position column
GroRecord(x) ==
    FmtD(1, 5) \o FmtS(ResA, 5) \o FmtSR(<<"C", "1">>, 5) \o FmtD(1, 5)
      \o RJust(x, 8) \o RJust(<<"2", ".", "5", "0", "0">>, 8)
      \o RJust(<<"-", "0", ".", "1", "2", "5">>, 8) \o <<"\n">>

\* the last is a number whose product with 10 is past the largest double
GoodRecords ==
    {GroRecord(<<"1", ".", "0", "0", "1">>), GroRecord(<<"-", "3", ".", "2">>),
     GroRecord(<<"-", "1", "e", "3", "0", "8">>)}

\* records with a blank and with a non-numeric position column, and lines
\* that end before the position columns
BadRecords ==
    {GroRecord(<<>>), GroRecord(<<"a", "b", "c">>), <<"H", "I", "I", "\n">>,
     TitleLine, <<"2", "\n">>}

MaxGroLines == 4    \* lines of a stream, 0..MaxGroLines

InitRg ==
    /\ \E n \in 0..MaxGroLines : rgFile \in [1..n -> GoodRecords \cup BadRecords]
    /\ rgXyz = <<>>
    /\ rgIdentity = <<>>
    /\ rgNoAtoms = 0
    /\ pcRg = "call"

IdleRg ==
    /\ rgFile = <<>>
    /\ rgXyz = <<>>
    /\ rgIdentity = <<>>
    /\ rgNoAtoms = 0
    /\ pcRg = "idle"

notRg == <<asmVars, groVars, ndxVars, isectVars, ovlVars, areaVars, hbVars, waxsVars, tiltVars, lfVars, pdbVars, eclVars, p2pVars, cfgVars, rdfVars, scVars, calVars>>

ZerosNeverRaises(n) == FALSE

\* np.zeros([3, n]) raises ValueError for a negative n (line 53)
ZerosRaises(n) == n < 0

\* lines 43-59
read_gro_coords ==
    /\ pcRg = "call"
    /\ LET no_atoms == Len(rgFile) - lines_of_text - 1
           rows == 1..no_atoms
       IN  /\ rgNoAtoms' = no_atoms
           /\ IF ZerosRaises(no_atoms) \/ \E j \in rows : ~CoordsOk(rgFile[lines_of_text + j])
              THEN /\ pcRg' = "ValueError"
                   /\ UNCHANGED <<rgXyz, rgIdentity>>
              ELSE /\ rgXyz' = [j \in rows |->
                                  <<ReadCoord(rgFile[lines_of_text + j], 20, 28),
                                    ReadCoord(rgFile[lines_of_text + j], 28, 36),
                                    ReadCoord(rgFile[lines_of_text + j], 36, 44)>>]
                   /\ rgIdentity' = [j \in rows |-> ReadName(rgFile[lines_of_text + j])]
                   /\ pcRg' = "returned"
    /\ UNCHANGED <<rgFile, notRg>>

NextRg == read_gro_coords

\* the lines between the two header lines and the last line
RgAtomLines == {rgFile[j] : j \in 3..(Len(rgFile) - 1)}

\* C25 as stated: for every stream, also one of fewer than 3 lines or with an
\* atom line whose position columns are blank or non-numeric, read_gro_coords
\* returns arrays and raises nothing.
C25_NeverRaises == pcRg # "call" => pcRg \in {"idle", "returned"}

\* C25: read_gro_coords checks nothing itself: a stream of at least 3 lines
\* whose atom lines hold a number in each position column is parsed whatever
\* its header lines and its last line hold; a stream of fewer than 3 lines and
\* an atom line with a blank or non-numeric position column end in ValueError.
C25_RaisesOnlyValueError ==
    pcRg \notin {"idle", "call"} =>
        /\ pcRg \in {"returned", "ValueError"}
        /\ pcRg = "returned" <=> (Len(rgFile) >= 3 /\ RgAtomLines \subseteq GoodRecords)
        /\ pcRg = "returned" =>
              /\ Len(rgXyz) = Len(rgFile) - 3
              /\ Len(rgIdentity) = Len(rgFile) - 3

\* a stream whose first and last lines are no header and no box line is
\* parsed; a stream whose atom line is blank in a position column raises
C25_Witness ==
    \/ /\ pcRg = "returned"
       /\ Len(rgFile) = 4
       /\ rgFile[1] \in BadRecords
       /\ rgFile[4] \in BadRecords
    \/ /\ pcRg = "ValueError"
       /\ Len(rgFile) = 4
       /\ rgFile[3] = GroRecord(<<>>)

-----------------------------------------------------------------------------
(* WAXS calibration: src/HII/Scripts/WAXS.py lines 12-27

   Lines 21-27 read the centre column of the cropped image only, so the
   column is the input. The script crops 2*hw = 800 rows and zeroes the 150
   rows on each side of the middle; the model's column and band are shorter.
   Rows are numbered from 0 as in the script. *)

hw == 3             \* line 13: half the height of the cropped image (400)

band == 1           \* line 23: rows zeroed on each side of the middle (150)

qpi == Frac(17, 10) \* lines 20, 26: q of the pi-stacking reflection

ColumnValues == {Num(0 - 1), Num(0), Num(1), Nan}

Rows(col) == 0..(Len(col) - 1)

\* line 22 (Python 2): mid = axial.shape[0] / 2
mid(col) == Len(col) \div 2

ZeroedNowhere(col) == col

\* line 23: axial[(mid - 150):(mid + 150)] = 0; a negative start of the
\* slice counts from the end of the column
Zeroed(col) ==
    LET lo == IF mid(col) - band < 0 THEN Max2(0, mid(col) - band + Len(col))
              ELSE mid(col) - band
    IN  [k \in 1..Len(col) |->
            IF lo <= k - 1 /\ k - 1 < mid(col) + band THEN Num(0) ELSE col[k]]

\* line 24: np.amax(axial), nan if a row is nan
ColumnMax(col) ==
    IF \E i \in Rows(col) : IsNan(col[i + 1]) THEN Nan
    ELSE LET i == CHOOSE i \in Rows(col) : \A j \in Rows(col) : ~FGt(col[j + 1], col[i + 1])
         IN  col[i + 1]

\* line 25: np.where(axial == Imax)[0], the rows that hold Imax
RowsOf(col, m) == {i \in Rows(col) : FEq(col[i + 1], m)}

Least(S) == CHOOSE i \in S : \A j \in S : i <= j

\* line 26: 1.7 / abs(mid - Imax_pixel) is the division of a Python float
\* by a numpy.int64, an int of Python 2: a zero raises ZeroDivisionError
PixelToQRaises(d) == d = 0

\* line 26: the quotient for d # 0
PixelToQ(d) == FDiv(qpi, Num(d))

InitCal ==
    /\ axial \in [1..(2 * hw) -> ColumnValues]
    /\ Imax_pixel = 0
    /\ pixel_to_q = Nan
    /\ qmax = Nan
    /\ pcCal = "copied"

IdleCal ==
    /\ axial = <<>>
    /\ Imax_pixel = 0
    /\ pixel_to_q = Nan
    /\ qmax = Nan
    /\ pcCal = "idle"

notCal == <<asmVars, groVars, ndxVars, isectVars, ovlVars, areaVars, hbVars, waxsVars, tiltVars, lfVars, pdbVars, eclVars, p2pVars, cfgVars, rdfVars, scVars, rgVars>>

\* lines 22-23
CalZero ==
    /\ pcCal = "copied"
    /\ axial' = Zeroed(axial)
    /\ pcCal' = "zeroed"
    /\ UNCHANGED <<Imax_pixel, pixel_to_q, qmax, notCal>>

\* lines 24-27: line 25 raises IndexError when no row holds the maximum,
\* line 26 ZeroDivisionError when the first such row is the middle one
CalScale ==
    /\ pcCal = "zeroed"
    /\ LET Imax == ColumnMax(axial)
           found == RowsOf(axial, Imax)
       IN  IF found = {}
           THEN /\ pcCal' = "IndexError"
                /\ UNCHANGED <<Imax_pixel, pixel_to_q, qmax>>
           ELSE IF PixelToQRaises(Abs(mid(axial) - Least(found)))
           THEN /\ Imax_pixel' = Least(found)
                /\ pcCal' = "ZeroDivisionError"
                /\ UNCHANGED <<pixel_to_q, qmax>>
           ELSE /\ Imax_pixel' = Least(found)
                /\ pixel_to_q' = PixelToQ(Abs(mid(axial) - Least(found)))
                /\ qmax' = FMul(Num(mid(axial)), PixelToQ(Abs(mid(axial) - Least(found))))
                /\ pcCal' = "calibrated"
    /\ UNCHANGED <<axial, notCal>>

NextCal == CalZero \/ CalScale

OutsideBand(col) == {i \in Rows(col) : i < mid(col) - band \/ i >= mid(col) + band}

\* C28: whatever the centre column of the cropped image holds (all zeros
\* and all non-positive included), once the band of rows around the middle is
\* zeroed the first row of the maximum is at least the band's half-width
\* away from the middle, so the division 1.7 / |mid - Imax_pixel| never
\* raises ZeroDivisionError and the scale is finite and positive; a column
\* with a nan outside the band has no such row and the script stops with
\* IndexError before it divides.
C28_MaximumOutsideBand ==
    /\ pcCal # "ZeroDivisionError"
    /\ pcCal = "calibrated" =>
          /\ Abs(mid(axial) - Imax_pixel) >= band
          /\ pixel_to_q # Inf
          /\ ~IsNan(pixel_to_q)
          /\ FGt(pixel_to_q, Num(0))
    /\ pcCal = "IndexError" => \E i \in OutsideBand(axial) : IsNan(axial[i + 1])

\* a column that is negative wherever it was not zeroed: the first maximum
\* is the first row of the band, exactly the band's half-width from the middle
C28_Witness ==
    /\ pcCal = "calibrated"
    /\ \A i \in OutsideBand(axial) : axial[i + 1] = Num(0 - 1)
    /\ Imax_pixel = mid(axial) - band
    /\ pixel_to_q = FDiv(qpi, Num(band))

-----------------------------------------------------------------------------
(* Specifications: one per tool *)

StartAsm == InitAsm /\ IdleGro /\ IdleNdx /\ IdleIsect /\ IdleOvl /\ IdleArea /\ IdleHb /\ IdleWaxs /\ IdleTilt /\ IdleLf /\ IdlePdb /\ IdleEcl /\ IdleP2p /\ IdleCfg /\ IdleRdf /\ IdleSc /\ IdleRg /\ IdleCal
SpecAsm == StartAsm /\ [][NextAsm]_vars

StartGro == InitGro /\ IdleAsm /\ IdleNdx /\ IdleIsect /\ IdleOvl /\ IdleArea /\ IdleHb /\ IdleWaxs /\ IdleTilt /\ IdleLf /\ IdlePdb /\ IdleEcl /\ IdleP2p /\ IdleCfg /\ IdleRdf /\ IdleSc /\ IdleRg /\ IdleCal
SpecGro == StartGro /\ [][NextGro]_vars

StartNdx == InitNdx /\ IdleAsm /\ IdleGro /\ IdleIsect /\ IdleOvl /\ IdleArea /\ IdleHb /\ IdleWaxs /\ IdleTilt /\ IdleLf /\ IdlePdb /\ IdleEcl /\ IdleP2p /\ IdleCfg /\ IdleRdf /\ IdleSc /\ IdleRg /\ IdleCal
SpecNdx == StartNdx /\ [][NextNdx]_vars

StartIsect == InitIsect /\ IdleAsm /\ IdleGro /\ IdleNdx /\ IdleOvl /\ IdleArea /\ IdleHb /\ IdleWaxs /\ IdleTilt /\ IdleLf /\ IdlePdb /\ IdleEcl /\ IdleP2p /\ IdleCfg /\ IdleRdf /\ IdleSc /\ IdleRg /\ IdleCal
SpecIsect == StartIsect /\ [][NextIsect]_vars

StartArea == InitArea /\ IdleAsm /\ IdleGro /\ IdleNdx /\ IdleIsect /\ IdleOvl /\ IdleHb /\ IdleWaxs /\ IdleTilt /\ IdleLf /\ IdlePdb /\ IdleEcl /\ IdleP2p /\ IdleCfg /\ IdleRdf /\ IdleSc /\ IdleRg /\ IdleCal
SpecArea == StartArea /\ [][NextArea]_vars

StartOvl == InitOvl /\ IdleAsm /\ IdleGro /\ IdleNdx /\ IdleIsect /\ IdleArea /\ IdleHb /\ IdleWaxs /\ IdleTilt /\ IdleLf /\ IdlePdb /\ IdleEcl /\ IdleP2p /\ IdleCfg /\ IdleRdf /\ IdleSc /\ IdleRg /\ IdleCal
SpecOvl == StartOvl /\ [][NextOvl]_vars

StartHb == InitHb /\ IdleAsm /\ IdleGro /\ IdleNdx /\ IdleIsect /\ IdleArea /\ IdleOvl /\ IdleWaxs /\ IdleTilt /\ IdleLf /\ IdlePdb /\ IdleEcl /\ IdleP2p /\ IdleCfg /\ IdleRdf /\ IdleSc /\ IdleRg /\ IdleCal
SpecHb == StartHb /\ [][NextHb]_vars

StartWaxs == InitWaxs /\ IdleAsm /\ IdleGro /\ IdleNdx /\ IdleIsect /\ IdleArea /\ IdleOvl /\ IdleHb /\ IdleTilt /\ IdleLf /\ IdlePdb /\ IdleEcl /\ IdleP2p /\ IdleCfg /\ IdleRdf /\ IdleSc /\ IdleRg /\ IdleCal
SpecWaxs == StartWaxs /\ [][NextWaxs]_vars

StartTilt == InitTilt /\ IdleAsm /\ IdleGro /\ IdleNdx /\ IdleIsect /\ IdleArea /\ IdleOvl /\ IdleHb /\ IdleWaxs /\ IdleLf /\ IdlePdb /\ IdleEcl /\ IdleP2p /\ IdleCfg /\ IdleRdf /\ IdleSc /\ IdleRg /\ IdleCal
SpecTilt == StartTilt /\ [][NextTilt]_vars

StartLf == InitLf /\ IdleAsm /\ IdleGro /\ IdleNdx /\ IdleIsect /\ IdleArea /\ IdleOvl /\ IdleHb /\ IdleWaxs /\ IdleTilt /\ IdlePdb /\ IdleEcl /\ IdleP2p /\ IdleCfg /\ IdleRdf /\ IdleSc /\ IdleRg /\ IdleCal
SpecLf == StartLf /\ [][NextLf]_vars

StartPdb == InitPdb /\ IdleAsm /\ IdleGro /\ IdleNdx /\ IdleIsect /\ IdleArea /\ IdleOvl /\ IdleHb /\ IdleWaxs /\ IdleTilt /\ IdleLf /\ IdleEcl /\ IdleP2p /\ IdleCfg /\ IdleRdf /\ IdleSc /\ IdleRg /\ IdleCal
SpecPdb == StartPdb /\ [][NextPdb]_vars

StartEcl == InitEcl /\ IdleAsm /\ IdleGro /\ IdleNdx /\ IdleIsect /\ IdleArea /\ IdleOvl /\ IdleHb /\ IdleWaxs /\ IdleTilt /\ IdleLf /\ IdlePdb /\ IdleP2p /\ IdleCfg /\ IdleRdf /\ IdleSc /\ IdleRg /\ IdleCal
SpecEcl == StartEcl /\ [][NextEcl]_vars

StartP2p == InitP2p /\ IdleAsm /\ IdleGro /\ IdleNdx /\ IdleIsect /\ IdleArea /\ IdleOvl /\ IdleHb /\ IdleWaxs /\ IdleTilt /\ IdleLf /\ IdlePdb /\ IdleEcl /\ IdleCfg /\ IdleRdf /\ IdleSc /\ IdleRg /\ IdleCal
SpecP2p == StartP2p /\ [][NextP2p]_vars

StartCfg == InitCfg /\ IdleAsm /\ IdleGro /\ IdleNdx /\ IdleIsect /\ IdleArea /\ IdleOvl /\ IdleHb /\ IdleWaxs /\ IdleTilt /\ IdleLf /\ IdlePdb /\ IdleEcl /\ IdleP2p /\ IdleRdf /\ IdleSc /\ IdleRg /\ IdleCal
SpecCfg == StartCfg /\ [][NextCfg]_vars

StartRdf == InitRdf /\ IdleAsm /\ IdleGro /\ IdleNdx /\ IdleIsect /\ IdleArea /\ IdleOvl /\ IdleHb /\ IdleWaxs /\ IdleTilt /\ IdleLf /\ IdlePdb /\ IdleEcl /\ IdleP2p /\ IdleCfg /\ IdleSc /\ IdleRg /\ IdleCal
SpecRdf == StartRdf /\ [][NextRdf]_vars

StartSc == InitSc /\ IdleAsm /\ IdleGro /\ IdleNdx /\ IdleIsect /\ IdleArea /\ IdleOvl /\ IdleHb /\ IdleWaxs /\ IdleTilt /\ IdleLf /\ IdlePdb /\ IdleEcl /\ IdleP2p /\ IdleCfg /\ IdleRdf /\ IdleRg /\ IdleCal
SpecSc == StartSc /\ [][NextSc]_vars

StartRg == InitRg /\ IdleAsm /\ IdleGro /\ IdleNdx /\ IdleIsect /\ IdleArea /\ IdleOvl /\ IdleHb /\ IdleWaxs /\ IdleTilt /\ IdleLf /\ IdlePdb /\ IdleEcl /\ IdleP2p /\ IdleCfg /\ IdleRdf /\ IdleSc /\ IdleCal
SpecRg == StartRg /\ [][NextRg]_vars

StartCal == InitCal /\ IdleAsm /\ IdleGro /\ IdleNdx /\ IdleIsect /\ IdleArea /\ IdleOvl /\ IdleHb /\ IdleWaxs /\ IdleTilt /\ IdleLf /\ IdlePdb /\ IdleEcl /\ IdleP2p /\ IdleCfg /\ IdleRdf /\ IdleSc /\ IdleRg
SpecCal == StartCal /\ [][NextCal]_vars

====
